---------------------------- MODULE Spec2Model ----------------------------
(***************************************************************************)
(* Model of hq-launcher's installer (src-tauri/src/installer.rs): the      *)
(* five-step InstallPipeline (download_and_setup) and the two-step         *)
(* SyncPipeline (sync_latest_install_from_manifest), over an abstract      *)
(* file system (versions root, one tree per installed game version, the    *)
(* shared configuration directory, the manifest-state file) and an event   *)
(* sink that records what the pipelines emit.                              *)
(*                                                                         *)
(* SpecInstall, SpecSync and Spec run the pipelines. SpecLink, SpecCopy,   *)
(* SpecMods and SpecProgress apply one function each to arguments drawn    *)
(* from bounded sets: ensure_config_junction, copy_dir_add_only, the two   *)
(* ModEntry methods of mod_config.rs, and overall_from_step; SpecAlias     *)
(* does so for normalize_aliases and SpecScan for the scan of the          *)
(* versions root. SpecBoth runs the two pipelines from two application     *)
(* data directories, SpecRetry runs sync after sync and remembers how the  *)
(* last one ended, SpecSteady runs the pipelines with collaborators whose  *)
(* reports never go down, and SpecRace interleaves the steps of two        *)
(* copy_dir_add_only calls on one destination.                             *)
(*                                                                         *)
(* Step progress and overall percent are f64 in the source; they are       *)
(* modelled as exact rationals [n, d] in lowest terms.                     *)
(***************************************************************************)
EXTENDS Integers, Sequences, FiniteSets, TLC

(* ------------------------------ bounds -------------------------------- *)

\* Pipeline runs started in one behaviour.
MaxRuns == 2
\* Progress callbacks the collaborators make in one run.
MaxCallbacks == 1
\* Greatest manifestVersion the remote manifest or the state file holds.
MaxManifest == 2

\* Game versions a run can be asked to install (directories versions/v<N>).
GameVersions == {1, 2}
\* Relative paths inside a configuration directory: two entries at the top (either
\* can be a file or a directory) and two entries below "sub".
Paths == {<<"a.cfg">>, <<"sub">>, <<"sub", "a.cfg">>, <<"sub", "b.cfg">>}
\* What a path holds: nothing, a regular file (its content), a directory, or an
\* entry that is neither (a symlink).
Contents == {"OLD", "NEW"}
Absent == "absent"
Dir == "dir"
Symlink == "symlink"
\* The <<done, total>> pairs a collaborator reports to a progress callback:
\* nothing to do, part-way, complete, and more done than the total.
Reports == {<<0, 0>>, <<1, 2>>, <<2, 2>>, <<3, 2>>}

(* ----------------------------- rationals ------------------------------ *)

RECURSIVE GCD(_, _)
GCD(a, b) == IF b = 0 THEN a ELSE GCD(b, a % b)

Rat(n, d) == LET g == GCD(n, d) IN [n |-> n \div g, d |-> d \div g]
Zero == [n |-> 0, d |-> 1]
One == [n |-> 1, d |-> 1]
RatLeq(a, b) == a.n * b.d <= b.n * a.d
RatLt(a, b) == a.n * b.d < b.n * a.d

\* f64::clamp(0.0, 1.0)
Clamp01(r) == IF RatLt(r, Zero) THEN Zero ELSE IF RatLt(One, r) THEN One ELSE r

\* Variant of overall_from_step that uses step and step_progress as they come
overall_from_step_unclamped(step, step_progress, steps_total) ==
    Rat(((step - 1) * step_progress.d + step_progress.n) * 100, step_progress.d * steps_total)

\* installer.rs:26 overall_from_step
overall_from_step(step, step_progress, steps_total) ==
    LET s == IF step < 1 THEN 1 ELSE IF step > steps_total THEN steps_total ELSE step
        sp == Clamp01(step_progress)
    IN  Rat(((s - 1) * sp.d + sp.n) * 100, sp.d * steps_total)

\* Variant of the callbacks' step_progress without the clamp
callback_progress_raw(done, total) ==
    IF total = 0 THEN One ELSE Rat(done, total)

\* installer.rs:292-296, 341-345, 640-644, 748-752: the callbacks' step_progress
callback_progress(done, total) ==
    IF total = 0 THEN One ELSE Clamp01(Rat(done, total))

\* installer.rs:590-592: the download loop's step_progress (total: Option<u64>)
download_progress(downloaded, total) ==
    IF total.known
    THEN IF total.len = 0 THEN Zero ELSE Clamp01(Rat(downloaded, total.len))
    ELSE Zero

\* Variant of the download's share of step 3 that is the whole step
FirstHalfWhole(r) == r

\* installer.rs:601 step_progress * 0.5, and :645 0.5 + step_progress * 0.5
FirstHalf(r) == Rat(r.n, 2 * r.d)
SecondHalf(r) == Rat(r.d + r.n, 2 * r.d)

INSTALL_STEPS_TOTAL == 5
SYNC_STEPS_TOTAL == 2

(* ----------------------------- file system ---------------------------- *)

\* Entry names under the versions root, as character sequences.
Digits == <<"0", "1", "2", "3", "4", "5", "6", "7", "8", "9">>
DigitChars == {Digits[i] : i \in 1..10}
DigitVal(c) == (CHOOSE i \in 1..10 : Digits[i] = c) - 1
\* u32::MAX = 4294967295, as decimal digits
U32MaxDigits == <<"4", "2", "9", "4", "9", "6", "7", "2", "9", "5">>

RECURSIVE Decimal(_)
Decimal(v) == IF v < 10 THEN <<Digits[v + 1]>>
              ELSE Decimal(v \div 10) \o <<Digits[(v % 10) + 1]>>

\* installer.rs:435 format!("v{version}")
VersionDirName(v) == <<"v">> \o Decimal(v)

RECURSIVE DigitsValue(_, _)
DigitsValue(s, acc) ==
    IF s = <<>> THEN acc ELSE DigitsValue(Tail(s), acc * 10 + DigitVal(Head(s)))

RECURSIVE StripZeros(_)
StripZeros(s) == IF s # <<>> /\ Head(s) = "0" THEN StripZeros(Tail(s)) ELSE s

RECURSIVE LexLeq(_, _)
LexLeq(a, b) ==
    IF a = <<>> THEN TRUE
    ELSE IF DigitVal(Head(a)) # DigitVal(Head(b)) THEN DigitVal(Head(a)) < DigitVal(Head(b))
    ELSE LexLeq(Tail(a), Tail(b))

\* A digit string's value is at most u32::MAX
FitsU32(body) ==
    LET t == StripZeros(body)
    IN  Len(t) < Len(U32MaxDigits) \/ (Len(t) = Len(U32MaxDigits) /\ LexLeq(t, U32MaxDigits))

\* str::parse::<u32>: an optional '+', then one or more decimal digits, no overflow
ParseU32(s) ==
    LET body == IF s # <<>> /\ Head(s) = "+" THEN Tail(s) ELSE s
        wellformed == body # <<>> /\ \A i \in 1..Len(body) : body[i] \in DigitChars
    IN  IF wellformed /\ FitsU32(body)
        THEN [ok |-> TRUE, value |-> DigitsValue(body, 0)]
        ELSE [ok |-> FALSE, value |-> 0]

\* str::strip_prefix('v')
StripPrefixV(name) ==
    IF name # <<>> /\ Head(name) = "v"
    THEN [ok |-> TRUE, rest |-> Tail(name)]
    ELSE [ok |-> FALSE, rest |-> <<>>]

\* Names that are not written by format!("v{version}") but may sit in the root.
OtherNames == {<<"v", "x">>, <<"v", "0", "3">>}
Names == {VersionDirName(v) : v \in GameVersions} \cup OtherNames

FileMaps == [Paths -> Contents \cup {Absent, Dir, Symlink}]
EmptyFiles == [p \in Paths |-> Absent]
\* The entries directly inside the directory at `prefix` (<<>>: the root)
Children(prefix) ==
    {p \in Paths : /\ Len(p) = Len(prefix) + 1
                   /\ \A i \in 1..Len(prefix) : p[i] = prefix[i]}
\* p is e or lies below e
Under(p, e) == Len(p) >= Len(e) /\ \A i \in 1..Len(e) : p[i] = e[i]
\* A tree: an entry exists only inside a directory
IsTree(t) == \A p \in Paths : \A e \in Paths :
                 (Under(p, e) /\ p # e /\ t[p] # Absent) => t[e] = Dir
\* The tree with these files (and the directories they need)
TreeOf(files) ==
    [p \in Paths |-> IF p \in DOMAIN files THEN files[p]
                     ELSE IF \E q \in DOMAIN files : Under(q, p) THEN Dir ELSE Absent]

\* game_root/BepInEx/config: nothing, a plain file, a genuine directory, or a
\* junction/symlink (to the shared directory or to some other directory).
NoConfig == [kind |-> "absent", files |-> EmptyFiles, target |-> "none"]
ConfigDir(files) == [kind |-> "dir", files |-> files, target |-> "none"]
ConfigLink(target) == [kind |-> "link", files |-> EmptyFiles, target |-> target]
ConfigFile == [kind |-> "file", files |-> EmptyFiles, target |-> "none"]

\* One entry of the versions root: kind "none" (no entry), "file" or "dir".
NoEntry == [kind |-> "none", game |-> "none", loader |-> FALSE, bepinex |-> FALSE,
            config |-> NoConfig, plugins |-> FALSE, mods |-> FALSE, cfgzip |-> FALSE]
FileEntry == [NoEntry EXCEPT !.kind = "file"]
EmptyDir == [NoEntry EXCEPT !.kind = "dir"]

\* installer.rs:46 read_manifest_state (io_ok: the read and the parse succeed)
read_manifest_state(f, io_ok) ==
    IF ~f.manifest_state.exists THEN [ok |-> TRUE, manifest_version |-> 0]
    ELSE IF io_ok THEN [ok |-> TRUE, manifest_version |-> f.manifest_state.manifest_version]
    ELSE [ok |-> FALSE, manifest_version |-> 0]

\* Variant of write_manifest_state that writes a default ManifestState
write_manifest_state_default(f, version, io_ok) ==
    IF io_ok
    THEN [ok |-> TRUE,
          fs |-> [f EXCEPT !.manifest_state = [exists |-> TRUE, manifest_version |-> 0]]]
    ELSE [ok |-> FALSE, fs |-> f]

\* installer.rs:55 write_manifest_state (io_ok: create_dir_all and write succeed)
write_manifest_state(f, version, io_ok) ==
    IF io_ok
    THEN [ok |-> TRUE,
          fs |-> [f EXCEPT !.manifest_state = [exists |-> TRUE, manifest_version |-> version]]]
    ELSE [ok |-> FALSE, fs |-> f]

\* installer.rs:81-92: the entries the scan keeps, with the number each parses to
Candidates(f) ==
    {n \in DOMAIN f.versions : /\ f.versions[n].kind = "dir"
                   /\ StripPrefixV(n).ok
                   /\ ParseU32(StripPrefixV(n).rest).ok}
NumberOf(n) == ParseU32(StripPrefixV(n).rest).value

\* Variant of latest_installed_version_dir without the is_dir test of line 81
latest_entry_any_kind(f) ==
    LET cands == {n \in DOMAIN f.versions : /\ f.versions[n].kind # "none"
                                /\ StripPrefixV(n).ok
                                /\ ParseU32(StripPrefixV(n).rest).ok}
    IN  IF ~f.root \/ cands = {}
        THEN {[some |-> FALSE, version |-> 0, name |-> <<>>]}
        ELSE {[some |-> TRUE, version |-> NumberOf(n), name |-> n] :
                n \in {c \in cands : \A o \in cands : NumberOf(o) <= NumberOf(c)}}

\* Variant of latest_installed_version_dir that keeps the last candidate it sees
\* whatever its number
any_installed_version_dir(f) ==
    IF ~f.root \/ Candidates(f) = {}
    THEN {[some |-> FALSE, version |-> 0, name |-> <<>>]}
    ELSE {[some |-> TRUE, version |-> NumberOf(n), name |-> n] : n \in Candidates(f)}

\* installer.rs:64 latest_installed_version_dir: the possible results. read_dir
\* yields entries in no fixed order and line 93 keeps the first of equal numbers,
\* so any candidate with the greatest number can be the one returned.
latest_installed_version_dir(f) ==
    IF ~f.root \/ Candidates(f) = {}
    THEN {[some |-> FALSE, version |-> 0, name |-> <<>>]}
    ELSE {[some |-> TRUE, version |-> NumberOf(n), name |-> n] :
            n \in {c \in Candidates(f) : \A o \in Candidates(f) : NumberOf(o) <= NumberOf(c)}}

\* installer.rs:120-140: copy_dir_add_only(src/prefix, dst/prefix). `processed`
\* are the entries the traversal handled before an I/O error stopped it (every
\* entry: no I/O error). create_dir_all fails when a non-directory is in the way.
RECURSIVE CopyEntries(_, _, _, _)
CopyEntries(src, dst, prefix, processed) ==
    IF prefix # <<>> /\ dst[prefix] \notin {Absent, Dir}
    THEN [ok |-> FALSE, files |-> dst]
    ELSE LET d0 == IF prefix # <<>> THEN [dst EXCEPT ![prefix] = Dir] ELSE dst
             entries == {e \in Children(prefix) : src[e] # Absent}
             handled == entries \cap processed
             sub(e) == CopyEntries(src, d0, e, processed)
             at(p) ==
                 LET tops == {e \in handled : Under(p, e)}
                 IN  IF tops = {} THEN d0[p]
                     ELSE LET e == CHOOSE x \in tops : TRUE
                          IN  IF src[e] = Dir THEN sub(e).files[p]
                              ELSE IF p = e /\ src[e] \in Contents /\ d0[e] = Absent
                              THEN src[e]
                              ELSE d0[p]
         IN  [ok |-> /\ entries \subseteq processed
                     /\ \A e \in handled : src[e] = Dir => sub(e).ok,
              files |-> [p \in Paths |-> at(p)]]

\* Variant of copy_dir_add_only without the to.exists() test of line 131: a file
\* of src replaces the file dst has at the same path
copy_dir_overwrite(src, dst, same, processed) ==
    [ok |-> TRUE,
     files |-> [p \in Paths |-> IF src[p] \in Contents /\ dst[p] \in Contents \cup {Absent}
                                THEN src[p] ELSE dst[p]]]

\* installer.rs:110 copy_dir_add_only(src, dst); same: the two paths are equal or
\* canonicalize to the same directory (lines 111-118)
copy_dir_add_only(src, dst, same, processed) ==
    IF same THEN [ok |-> TRUE, files |-> dst]
    ELSE CopyEntries(src, dst, <<>>, processed)

\* installer.rs:143/151 is_reparse_point: the cfg(not(windows)) variant is the
\* constant false
is_reparse_point(plat, cfg) == plat = "windows" /\ cfg.kind = "link"

\* installer.rs:156/174 create_dir_junction: mklink /J on windows, create_dir_all
\* of the link path elsewhere
create_dir_junction(plat) ==
    IF plat = "windows" THEN ConfigLink("shared") ELSE ConfigDir(EmptyFiles)

IoFaults == {"none", "create_shared", "create_bepinex", "remove", "create_link"}

\* What ensure_config_junction returns: Ok(shared) or Err(message)
OkShared == [ok |-> TRUE, path |-> "shared"]
ErrMessage == [ok |-> FALSE, path |-> "none"]

\* Path::exists / Path::is_dir of the config path: both follow a link to its
\* target ("shared" exists by line 186; "other" is a directory outside)
LinkExists(f, cfg) ==
    \/ cfg.kind \in {"dir", "file"}
    \/ cfg.kind = "link" /\ (cfg.target = "shared" \/ f.other.exists)
LinkIsDir(f, cfg) == cfg.kind # "file" /\ LinkExists(f, cfg)
\* The entries read_dir(link) yields
LinkEntries(f, cfg) == IF cfg.kind = "link" THEN f.other.files ELSE cfg.files

\* Variant of ensure_config_junction without the early return of lines 194-198:
\* a link that already points to the shared directory is removed and made again
ensure_config_junction_relink(plat, f, name, io, processed) ==
    LET f1 == [f EXCEPT !.shared.exists = TRUE]
        f2 == [f1 EXCEPT !.versions[name].bepinex = TRUE]
        cfg == f.versions[name].config
        with(c, files) == [f2 EXCEPT !.versions[name].config = c, !.shared.files = files]
        \* line 215: the path is free (or, lines 193 and 215, a dangling link is
        \* still in the way and neither mklink nor create_dir_all succeeds)
        link(files, free) ==
            IF io = "create_link" \/ ~free
            THEN [ok |-> FALSE, ret |-> ErrMessage,
                  fs |-> with(IF free THEN NoConfig ELSE cfg, files)]
            ELSE [ok |-> TRUE, ret |-> OkShared, fs |-> with(create_dir_junction(plat), files)]
    IN  IF io = "create_shared" THEN [ok |-> FALSE, ret |-> ErrMessage, fs |-> f]
        ELSE IF io = "create_bepinex" THEN [ok |-> FALSE, ret |-> ErrMessage, fs |-> f1]
        ELSE IF ~LinkExists(f2, cfg) THEN link(f2.shared.files, cfg.kind = "absent")
        ELSE IF ~LinkIsDir(f2, cfg) \/ is_reparse_point(plat, cfg)
             THEN IF io = "remove" THEN [ok |-> FALSE, ret |-> ErrMessage, fs |-> f2]
                  ELSE link(f2.shared.files, TRUE)
        ELSE LET merged == copy_dir_add_only(LinkEntries(f2, cfg), f2.shared.files,
                                             FALSE, processed).files
             IN  IF io = "remove"
                 THEN [ok |-> FALSE, ret |-> ErrMessage, fs |-> with(cfg, merged)]
                 ELSE link(merged, TRUE)

\* installer.rs:184 ensure_config_junction(app, game_root), game_root = versions/name.
\* io names the file-system call that fails (if any); processed is what the
\* best-effort copy of line 206 got through. Returns ret (the function's result)
\* and fs (the file system it leaves).
ensure_config_junction(plat, f, name, io, processed) ==
    LET f1 == [f EXCEPT !.shared.exists = TRUE]
        f2 == [f1 EXCEPT !.versions[name].bepinex = TRUE]
        cfg == f.versions[name].config
        with(c, files) == [f2 EXCEPT !.versions[name].config = c, !.shared.files = files]
        \* line 215: the path is free (or, lines 193 and 215, a dangling link is
        \* still in the way and neither mklink nor create_dir_all succeeds)
        link(files, free) ==
            IF io = "create_link" \/ ~free
            THEN [ok |-> FALSE, ret |-> ErrMessage,
                  fs |-> with(IF free THEN NoConfig ELSE cfg, files)]
            ELSE [ok |-> TRUE, ret |-> OkShared, fs |-> with(create_dir_junction(plat), files)]
    IN  IF io = "create_shared" THEN [ok |-> FALSE, ret |-> ErrMessage, fs |-> f]
        ELSE IF io = "create_bepinex" THEN [ok |-> FALSE, ret |-> ErrMessage, fs |-> f1]
        ELSE IF ~LinkExists(f2, cfg) THEN link(f2.shared.files, cfg.kind = "absent")
        ELSE IF cfg.kind = "link" /\ cfg.target = "shared"
             THEN [ok |-> TRUE, ret |-> OkShared, fs |-> f2]
        ELSE IF ~LinkIsDir(f2, cfg) \/ is_reparse_point(plat, cfg)
             THEN IF io = "remove" THEN [ok |-> FALSE, ret |-> ErrMessage, fs |-> f2]
                  ELSE link(f2.shared.files, TRUE)
        ELSE LET merged == copy_dir_add_only(LinkEntries(f2, cfg), f2.shared.files,
                                             FALSE, processed).files
             IN  IF io = "remove"
                 THEN [ok |-> FALSE, ret |-> ErrMessage, fs |-> with(cfg, merged)]
                 ELSE link(merged, TRUE)

(* ------------------------------- events ------------------------------- *)

\* progress.rs TaskProgressPayload / TaskFinishedPayload / TaskErrorPayload
Progress(version, total, step, sp, overall) ==
    [type |-> "progress", version |-> version, steps_total |-> total,
     step |-> step, step_progress |-> sp, overall_percent |-> overall]
Finished(version) ==
    [type |-> "finished", version |-> version, steps_total |-> 0,
     step |-> 0, step_progress |-> Zero, overall_percent |-> Zero]
Error(version) ==
    [type |-> "error", version |-> version, steps_total |-> 0,
     step |-> 0, step_progress |-> Zero, overall_percent |-> Zero]

(* -------------------------------- state ------------------------------- *)

VARIABLES
    platform,   \* "windows" or "unix": which cfg(...) variants were compiled
    fs,         \* the application data directory
    pc,         \* where the running pipeline is ("idle" before the first run)
    loc,        \* the running pipeline's local variables
    events,     \* what the current run has emitted to the progress channel
    calls,      \* the collaborator and network calls the current run has made
    runs,       \* pipeline runs started so far
    pre,        \* fs as it was when the current run started
    fn          \* the function application under study (none while a pipeline runs)

vars == <<platform, fs, pc, loc, events, calls, runs, pre, fn>>

\* Loader responses: the body's bytes, by what they start with.
Bodies == {<<"P", "K">>, <<"<", "h">>, <<"P">>, <<>>}
\* The game versions a fetched manifest has depot ids for.
ManifestSets == {{1}, {2}}
NoTotal == [known |-> FALSE, len |-> 0]
Totals(body) == {NoTotal} \cup {[known |-> TRUE, len |-> l] : l \in {0, 1, Len(body)}}

NoLoc == [kind |-> "none", version |-> 0, name |-> <<>>, res |-> "pending", exit |-> "",
          remote |-> 0, local |-> 0, manifests |-> {}, body |-> <<>>, total |-> NoTotal,
          downloaded |-> 0, cb |-> 0, gets |-> 0, http |-> ""]

LegacyInstall == [kind |-> "dir", game |-> "full", loader |-> TRUE, bepinex |-> TRUE,
                  config |-> ConfigDir(TreeOf(<<"a.cfg">> :> "OLD")),
                  plugins |-> TRUE, mods |-> TRUE, cfgzip |-> FALSE]
LinkedInstall(plat) == [LegacyInstall EXCEPT !.config = create_dir_junction(plat)]

NoVersions == [n \in Names |-> NoEntry]
NoShared == [exists |-> FALSE, files |-> EmptyFiles]
SomeShared == [exists |-> TRUE,
               files |-> TreeOf(<<"a.cfg">> :> "NEW")]
\* A directory outside the application data directory that a config link can
\* point to
NoOther == [exists |-> FALSE, files |-> EmptyFiles]
NoState == [exists |-> FALSE, manifest_version |-> 0]
SomeStates == {[exists |-> TRUE, manifest_version |-> m] : m \in 1..MaxManifest}
NoZip == [exists |-> FALSE, bytes |-> <<>>]

NoFn == [op |-> "none"]

Fs(root, versions, shared, state) ==
    [root |-> root, versions |-> versions, shared |-> shared,
     other |-> NoOther, manifest_state |-> state, temp_zip |-> NoZip]

\* The application data directories a run can start from: a fresh machine; one
\* install that predates the shared directory; two installs, the later one
\* linked; a linked install beside entries the scan must ignore; a versions
\* root that holds no install at all.
InitFs(plat) ==
    {Fs(FALSE, NoVersions, NoShared, NoState)}
    \cup {Fs(TRUE, [NoVersions EXCEPT ![VersionDirName(1)] = LegacyInstall], NoShared, NoState)}
    \cup {Fs(TRUE, [NoVersions EXCEPT ![VersionDirName(1)] = LegacyInstall,
                                      ![VersionDirName(2)] = LinkedInstall(plat)],
             SomeShared, st) : st \in SomeStates}
    \cup {Fs(TRUE, [NoVersions EXCEPT ![VersionDirName(1)] = LinkedInstall(plat),
                                      ![<<"v", "0", "3">>] = FileEntry,
                                      ![<<"v", "x">>] = EmptyDir],
             SomeShared, st) : st \in SomeStates}
    \cup {Fs(TRUE, [NoVersions EXCEPT ![<<"v", "0", "3">>] = FileEntry], NoShared, NoState)}

Init ==
    /\ platform \in {"windows", "unix"}
    /\ fs \in InitFs(platform)
    /\ pc = "idle"
    /\ loc = NoLoc
    /\ events = <<>>
    /\ calls = <<>>
    /\ runs = 0
    /\ pre = fs
    /\ fn = NoFn

Emit(es) == events' = events \o es
Call(c) == calls' = Append(calls, c)

\* History kept beside a run when a specification asks for it (fn.op says
\* which): the (done, total) a collaborator reported last in the call that is
\* in progress, and what the last sync run that compared the two versions
\* came to.
NoteReport(done, total) ==
    IF fn.op = "reports" THEN [fn EXCEPT !.report = <<done, total>>] ELSE fn
ClearReport == IF fn.op = "reports" THEN [fn EXCEPT !.report = <<>>] ELSE fn
NoRun == [outcome |-> "none", remote |-> 0]
RunOutcome ==
    IF loc.exit = "up_to_date" THEN "noop"
    ELSE IF loc.res = "ok" THEN "finished"
    ELSE IF loc.exit = "write_manifest_state" THEN "unsaved"
    ELSE "failed"
NoteRun ==
    IF /\ fn.op = "sync_history"
       /\ loc.kind = "sync"
       /\ loc.exit \notin {"app_data_dir", "no_installed_version", "fetch_manifest",
                            "read_manifest_state"}
    THEN [fn EXCEPT !.last = [outcome |-> RunOutcome, remote |-> loc.remote]]
    ELSE fn

(* --------------------- mod_config.rs: the remote manifest ------------- *)

\* The ModEntry fields normalize_aliases reads or writes, and one it leaves alone
Devs == {"Hardy", "Zaggy1024"}
ModNames == {"LCMaxSoundFix", "LCMaxSoundsFix", "PathfindingLib"}
AliasEntries == [dev : Devs, name : ModNames, enabled : BOOLEAN]
\* The longest mods list
MaxMods == 2
ModLists == UNION {[1..n -> AliasEntries] : n \in 0..MaxMods}

\* Variant of the rename that swaps the two spellings of the name
normalize_aliases_swap(mods) ==
    LET known(m) == m.dev = "Hardy" /\ m.name \in {"LCMaxSoundFix", "LCMaxSoundsFix"}
        other(n) == IF n = "LCMaxSoundFix" THEN "LCMaxSoundsFix" ELSE "LCMaxSoundFix"
    IN  [changed |-> \E i \in DOMAIN mods : known(mods[i]),
         mods |-> [i \in DOMAIN mods |->
                     IF known(mods[i]) THEN [mods[i] EXCEPT !.name = other(@)]
                     ELSE mods[i]]]

\* mod_config.rs:115-125: the one rename rule, applied to every entry in place;
\* the result is the `changed` flag and the list as it is afterwards
normalize_aliases(mods) ==
    LET matches(m) == m.dev = "Hardy" /\ m.name = "LCMaxSoundFix"
    IN  [changed |-> \E i \in DOMAIN mods : matches(mods[i]),
         mods |-> [i \in DOMAIN mods |->
                     IF matches(mods[i]) THEN [mods[i] EXCEPT !.name = "LCMaxSoundsFix"]
                     ELSE mods[i]]]

\* What the manifest URL answers to one GET: the request can fail in transport,
\* come back with an error status, or carry a body that is not a RemoteManifest
Statuses == {200, 404, 500}
ManifestMods == <<[dev |-> "Hardy", name |-> "LCMaxSoundFix", enabled |-> TRUE]>>
NoResponse == [sent |-> FALSE, status |-> 0, parses |-> FALSE, version |-> 0,
               manifests |-> {}, mods |-> <<>>]
Responses ==
    {NoResponse}
    \cup {[NoResponse EXCEPT !.sent = TRUE, !.status = st] : st \in Statuses}
    \cup {[sent |-> TRUE, status |-> 200, parses |-> TRUE, version |-> v,
           manifests |-> m, mods |-> ManifestMods] :
             v \in 0..MaxManifest, m \in ManifestSets}

FetchErr(kind, gets) == [ok |-> FALSE, err |-> kind, gets |-> gets, version |-> 0,
                         manifests |-> {}, mods |-> <<>>]

\* Variant of the fetch that sends the request a second time when the first
\* one fails in transport
fetch_manifest_retry(resp) ==
    IF ~resp.sent THEN FetchErr("transport", 2)
    ELSE IF resp.status >= 400 THEN FetchErr("status", 1)
    ELSE IF ~resp.parses THEN FetchErr("parse", 1)
    ELSE [ok |-> TRUE, err |-> "", gets |-> 1, version |-> resp.version,
          manifests |-> resp.manifests, mods |-> normalize_aliases(resp.mods).mods]

\* mod_config.rs:89-112: one client.get(url).send(), then error_for_status, then
\* json::<RemoteManifest>(), each with `?`; the aliases of the parsed mods are
\* normalized. `gets` is the number of requests the call sent.
fetch_manifest(resp) ==
    IF ~resp.sent THEN FetchErr("transport", 1)
    ELSE IF resp.status >= 400 THEN FetchErr("status", 1)
    ELSE IF ~resp.parses THEN FetchErr("parse", 1)
    ELSE [ok |-> TRUE, err |-> "", gets |-> 1, version |-> resp.version,
          manifests |-> resp.manifests, mods |-> normalize_aliases(resp.mods).mods]

(* --------------------- InstallPipeline: download_and_setup ------------ *)

IProgress(step, sp) ==
    Progress(loc.version, INSTALL_STEPS_TOTAL, step, sp,
             overall_from_step(step, sp, INSTALL_STEPS_TOTAL))

\* A `?` or `return Err(..)` inside the async block of installer.rs:420-800
IFail(reason) == /\ loc' = [loc EXCEPT !.res = "err", !.exit = reason]
                 /\ pc' = "i_return"

\* installer.rs:419
StartInstall(version) ==
    /\ pc = "idle"
    /\ runs' = runs + 1
    /\ loc' = [NoLoc EXCEPT !.kind = "install", !.version = version,
                            !.name = VersionDirName(version)]
    /\ events' = <<>>
    /\ calls' = <<>>
    /\ pre' = fs
    /\ pc' = "i_downloader"
    /\ UNCHANGED <<platform, fn, fs>>

\* installer.rs:422-433: install the downloader, create the versions root
InstallDownloader(outcome) ==
    /\ pc = "i_downloader"
    /\ Call("install_downloader")
    /\ CASE outcome = "downloader_err" -> IFail("install_downloader") /\ UNCHANGED fs
         [] outcome = "mkdir_err" -> IFail("create_versions_root") /\ UNCHANGED fs
         [] OTHER -> /\ fs' = [fs EXCEPT !.root = TRUE]
                     /\ pc' = "i_login"
                     /\ UNCHANGED loc
    /\ UNCHANGED <<platform, fn, events, runs, pre>>

\* Variant of LoginCheck that notes the missing login and goes on
LoginCheckContinues(outcome) ==
    /\ pc = "i_login"
    /\ CASE outcome = "new_err" ->
              /\ Emit(<<IProgress(1, Zero)>>)
              /\ IFail("downloader_new") /\ UNCHANGED calls
         [] outcome = "not_logged_in" ->
              /\ Emit(<<IProgress(1, Zero), IProgress(1, One)>>)
              /\ Call("get_login_state")
              /\ loc' = [loc EXCEPT !.exit = "not_logged_in"]
              /\ pc' = "i_fetch"
         [] OTHER ->
              /\ Emit(<<IProgress(1, Zero), IProgress(1, One)>>)
              /\ Call("get_login_state")
              /\ pc' = "i_fetch"
              /\ UNCHANGED loc
    /\ UNCHANGED <<platform, fn, fs, runs, pre>>

\* installer.rs:440-480: step 1
LoginCheck(outcome) ==
    /\ pc = "i_login"
    /\ CASE outcome = "new_err" ->
              /\ Emit(<<IProgress(1, Zero)>>)
              /\ IFail("downloader_new") /\ UNCHANGED calls
         [] outcome = "not_logged_in" ->
              /\ Emit(<<IProgress(1, Zero)>>)
              /\ Call("get_login_state")
              /\ IFail("not_logged_in")
         [] OTHER ->
              /\ Emit(<<IProgress(1, Zero), IProgress(1, One)>>)
              /\ Call("get_login_state")
              /\ pc' = "i_fetch"
              /\ UNCHANGED loc
    /\ UNCHANGED <<platform, fn, fs, runs, pre>>

\* installer.rs:482-484
InstallFetchManifest(resp) ==
    /\ pc = "i_fetch"
    /\ Call("fetch_manifest")
    /\ LET r == fetch_manifest(resp)
       IN  IF r.ok
           THEN /\ loc' = [loc EXCEPT !.manifests = r.manifests, !.gets = @ + r.gets]
                /\ pc' = "i_game"
           ELSE /\ loc' = [loc EXCEPT !.res = "err", !.exit = "fetch_manifest",
                                      !.gets = @ + r.gets, !.http = r.err]
                /\ pc' = "i_return"
    /\ UNCHANGED <<platform, fn, fs, events, runs, pre>>

\* installer.rs:504-507: remove_dir_all(extract_dir) if it exists, then create_dir_all
PurgeVersionDir(f, name, outcome) ==
    LET e == f.versions[name]
    IN  IF e.kind # "none" /\ (outcome = "remove_err" \/ e.kind = "file")
        THEN [ok |-> FALSE, fs |-> f]
        ELSE IF outcome = "create_err"
        THEN [ok |-> FALSE, fs |-> [f EXCEPT !.versions[name] = NoEntry]]
        ELSE [ok |-> TRUE, fs |-> [f EXCEPT !.versions[name] = EmptyDir]]

\* installer.rs:511-514 manifests.get(&version)
HasManifestId(manifests, version) == version \in manifests

\* installer.rs:486-514: step 2 up to the depot download. The directory is purged
\* (504-507) before the manifest id is looked up (511-514).
PrepareGameDir(outcome) ==
    /\ pc = "i_game"
    /\ Emit(<<IProgress(2, Zero)>>)
    /\ LET r == PurgeVersionDir(fs, loc.name, outcome)
       IN  /\ fs' = r.fs
           /\ IF ~r.ok THEN IFail("purge_version_dir")
              ELSE IF ~HasManifestId(loc.manifests, loc.version) THEN IFail("no_manifest_id")
              ELSE pc' = "i_depot" /\ UNCHANGED loc
    /\ UNCHANGED <<platform, fn, calls, runs, pre>>

\* Variant of DownloadDepot without the end record of installer.rs:522-537
DownloadDepotNoEndRecord(outcome) ==
    /\ pc = "i_depot"
    /\ Call("download_depot")
    /\ CASE outcome = "ok" ->
              /\ fs' = [fs EXCEPT !.versions[loc.name].game = "full"]
              /\ pc' = "i_loader"
              /\ UNCHANGED <<loc, events>>
         [] outcome = "err_partial" ->
              /\ fs' = [fs EXCEPT !.versions[loc.name].game = "partial"]
              /\ IFail("download_depot")
              /\ UNCHANGED events
         [] OTHER ->
              /\ IFail("download_depot")
              /\ UNCHANGED <<fs, events>>
    /\ UNCHANGED <<platform, fn, runs, pre>>

\* installer.rs:517-537: the depot download and the end of step 2
DownloadDepot(outcome) ==
    /\ pc = "i_depot"
    /\ Call("download_depot")
    /\ CASE outcome = "ok" ->
              /\ fs' = [fs EXCEPT !.versions[loc.name].game = "full"]
              /\ Emit(<<IProgress(2, One)>>)
              /\ pc' = "i_loader"
              /\ UNCHANGED loc
         [] outcome = "err_partial" ->
              /\ fs' = [fs EXCEPT !.versions[loc.name].game = "partial"]
              /\ IFail("download_depot")
              /\ UNCHANGED events
         [] OTHER ->
              /\ IFail("download_depot")
              /\ UNCHANGED <<fs, events>>
    /\ UNCHANGED <<platform, fn, runs, pre>>

\* installer.rs:539-581: step 3 start, the GET, the temp directory and the file
LoaderRequest(outcome, body, total) ==
    /\ pc = "i_loader"
    /\ Emit(<<IProgress(3, Zero)>>)
    /\ Call("get_loader_package")
    /\ CASE outcome = "ok" ->
              /\ fs' = [fs EXCEPT !.temp_zip = [exists |-> TRUE, bytes |-> <<>>]]
              /\ loc' = [loc EXCEPT !.body = body, !.total = total, !.downloaded = 0]
              /\ pc' = "i_stream"
         [] outcome = "file_err" -> IFail("create_temp_file") /\ UNCHANGED fs
         [] OTHER -> IFail("get_loader_package") /\ UNCHANGED fs
    /\ UNCHANGED <<platform, fn, runs, pre>>

\* installer.rs:585-613: one chunk of the stream (n bytes), or a stream error
LoaderChunk(ok, n) ==
    /\ pc = "i_stream"
    /\ loc.downloaded < Len(loc.body)
    /\ n \in 1..(Len(loc.body) - loc.downloaded)
    /\ IF ok
       THEN LET d == loc.downloaded + n
                sp == FirstHalf(download_progress(d, loc.total))
            IN  /\ fs' = [fs EXCEPT !.temp_zip.bytes = SubSeq(loc.body, 1, d)]
                /\ loc' = [loc EXCEPT !.downloaded = d]
                /\ Emit(<<IProgress(3, sp)>>)
                /\ UNCHANGED pc
       ELSE IFail("loader_stream") /\ UNCHANGED <<fs, events>>
    /\ UNCHANGED <<platform, fn, calls, runs, pre>>

\* installer.rs:622 n < 2 || header[0] != b'P' || header[1] != b'K'
BadMagic(bytes) == Len(bytes) < 2 \/ bytes[1] # "P" \/ bytes[2] # "K"

\* Variant of LoaderCheck without the magic-byte check of installer.rs:616-626
LoaderCheckNoMagic(outcome) ==
    /\ pc = "i_stream"
    /\ loc.downloaded = Len(loc.body)
    /\ CASE outcome = "open_err" ->
              IFail("open_zip") /\ UNCHANGED <<fs, calls>>
         [] OTHER ->
              /\ Call("extract_thunderstore_package")
              /\ pc' = "i_extract"
              /\ UNCHANGED <<fs, loc>>
    /\ UNCHANGED <<platform, fn, events, runs, pre>>

\* installer.rs:614-635: the stream has ended; the magic-byte check; on success
\* the extraction is handed to the blocking worker
LoaderCheck(outcome) ==
    /\ pc = "i_stream"
    /\ loc.downloaded = Len(loc.body)
    /\ CASE outcome = "open_err" ->
              IFail("open_zip") /\ UNCHANGED <<fs, calls>>
         [] BadMagic(fs.temp_zip.bytes) /\ outcome # "open_err" ->
              \* let _ = remove_file(..): the removal's own failure is dropped
              /\ fs' = IF outcome = "remove_err" THEN fs ELSE [fs EXCEPT !.temp_zip = NoZip]
              /\ IFail("bad_magic")
              /\ UNCHANGED calls
         [] OTHER ->
              /\ Call("extract_thunderstore_package")
              /\ pc' = "i_extract"
              /\ UNCHANGED <<fs, loc>>
    /\ UNCHANGED <<platform, fn, events, runs, pre>>

\* What the loader package and the default-config package hold for the
\* configuration directory.
PackConfig == TreeOf(<<"a.cfg">> :> "OLD" @@ <<"sub", "a.cfg">> :> "OLD")

\* zip_utils::extract_thunderstore_package_with_progress into game_root: the
\* loader's files, with or without a BepInEx/config directory of its own
ExtractLoader(f, name, with_config) ==
    [f EXCEPT !.versions[name].loader = TRUE,
              !.versions[name].bepinex = TRUE,
              !.versions[name].config =
                  IF with_config /\ f.versions[name].config.kind = "absent"
                  THEN ConfigDir(PackConfig) ELSE @]

\* installer.rs:639-662: the extraction's progress callback
LoaderExtractProgress(done, total) ==
    /\ pc = "i_extract"
    /\ loc' = [loc EXCEPT !.cb = @ + 1]
    /\ Emit(<<IProgress(3, SecondHalf(callback_progress(done, total)))>>)
    /\ fn' = NoteReport(done, total)
    /\ UNCHANGED <<platform, fs, pc, calls, runs, pre>>

\* installer.rs:663-685: the extraction ends; the archive is removed (best
\* effort); end of step 3
LoaderExtractDone(outcome, with_config) ==
    /\ pc = "i_extract"
    /\ CASE outcome = "err" ->
              IFail("extract_loader") /\ UNCHANGED <<fs, events>>
         [] OTHER ->
              /\ fs' = [ExtractLoader(fs, loc.name, with_config) EXCEPT
                          !.temp_zip = IF outcome = "ok_zip_kept" THEN @ ELSE NoZip]
              /\ Emit(<<IProgress(3, One)>>)
              /\ pc' = "i_config"
              /\ UNCHANGED loc
    /\ fn' = ClearReport
    /\ UNCHANGED <<platform, calls, runs, pre>>

\* installer.rs:687-724: step 4
InstallConfig(io, processed) ==
    /\ pc = "i_config"
    /\ Call("ensure_config_junction")
    /\ LET r == ensure_config_junction(platform, fs, loc.name, io, processed)
       IN  /\ fs' = r.fs
           /\ IF r.ok
              THEN /\ Emit(<<IProgress(4, Zero), IProgress(4, One)>>)
                   /\ pc' = "i_mods"
                   /\ UNCHANGED loc
              ELSE /\ Emit(<<IProgress(4, Zero)>>)
                   /\ IFail("ensure_config_junction")
    /\ UNCHANGED <<platform, fn, runs, pre>>

\* installer.rs:726-747: step 5 start, the plugins directory
ModsBegin(ok) ==
    /\ pc = "i_mods"
    /\ Emit(<<IProgress(5, Zero)>>)
    /\ IF ok
       THEN /\ fs' = [fs EXCEPT !.versions[loc.name].plugins = TRUE]
            /\ Call("install_mods")
            /\ pc' = "i_mods_run"
            /\ UNCHANGED loc
       ELSE IFail("create_plugins_dir") /\ UNCHANGED <<fs, calls>>
    /\ UNCHANGED <<platform, fn, runs, pre>>

\* installer.rs:747-769: the mods collaborator's progress callback
ModsProgress(done, total) ==
    /\ pc = "i_mods_run"
    /\ loc' = [loc EXCEPT !.cb = @ + 1]
    /\ Emit(<<IProgress(5, callback_progress(done, total))>>)
    /\ fn' = NoteReport(done, total)
    /\ UNCHANGED <<platform, fs, pc, calls, runs, pre>>

\* Variant of ModsDone that records the game version as the manifest state
ModsDoneWritesState(ok) ==
    /\ pc = "i_mods_run"
    /\ IF ok
       THEN /\ fs' = write_manifest_state([fs EXCEPT !.versions[loc.name].mods = TRUE],
                                          loc.version, TRUE).fs
            /\ Emit(<<IProgress(5, One), Finished(loc.version)>>)
            /\ loc' = [loc EXCEPT !.res = "ok"]
            /\ pc' = "i_return"
       ELSE IFail("install_mods") /\ UNCHANGED <<fs, events>>
    /\ fn' = ClearReport
    /\ UNCHANGED <<platform, calls, runs, pre>>

\* installer.rs:770-798: install_mods returns; end of step 5; emit_finished
ModsDone(ok) ==
    /\ pc = "i_mods_run"
    /\ IF ok
       THEN /\ fs' = [fs EXCEPT !.versions[loc.name].mods = TRUE]
            /\ Emit(<<IProgress(5, One), Finished(loc.version)>>)
            /\ loc' = [loc EXCEPT !.res = "ok"]
            /\ pc' = "i_return"
       ELSE IFail("install_mods") /\ UNCHANGED <<fs, events>>
    /\ fn' = ClearReport
    /\ UNCHANGED <<platform, calls, runs, pre>>

\* Variant of InstallReturn that rolls a failed run back by removing the version
\* directory
InstallReturnRollback ==
    /\ pc = "i_return"
    /\ IF loc.res = "err"
       THEN /\ Emit(<<Error(loc.version)>>)
            /\ fs' = [fs EXCEPT !.versions[loc.name] = NoEntry]
       ELSE UNCHANGED <<events, fs>>
    /\ pc' = "done"
    /\ UNCHANGED <<platform, fn, loc, calls, runs, pre>>

\* Variant of InstallReturn without the emit_error of installer.rs:802-810
InstallReturnSilent ==
    /\ pc = "i_return"
    /\ pc' = "done"
    /\ UNCHANGED <<platform, fn, fs, loc, events, calls, runs, pre>>

\* installer.rs:802-812: after the block, emit_error if it returned Err
InstallReturn ==
    /\ pc = "i_return"
    /\ IF loc.res = "err" THEN Emit(<<Error(loc.version)>>) ELSE UNCHANGED events
    /\ pc' = "done"
    /\ UNCHANGED <<platform, fn, fs, loc, calls, runs, pre>>

NextInstall ==
    \/ \E v \in GameVersions : StartInstall(v)
    \/ \E o \in {"ok", "downloader_err", "mkdir_err"} : InstallDownloader(o)
    \/ \E o \in {"ok", "new_err", "not_logged_in"} : LoginCheck(o)
    \/ \E resp \in Responses : InstallFetchManifest(resp)
    \/ \E o \in {"ok", "remove_err", "create_err"} : PrepareGameDir(o)
    \/ \E o \in {"ok", "err_partial", "err"} : DownloadDepot(o)
    \/ \E o \in {"ok", "file_err", "get_err"}, b \in Bodies :
          \E t \in Totals(b) : LoaderRequest(o, b, t)
    \/ \E ok \in BOOLEAN, n \in 1..2 : LoaderChunk(ok, n)
    \/ \E o \in {"ok", "open_err", "remove_err"} : LoaderCheck(o)
    \/ \E r \in Reports : loc.cb < MaxCallbacks /\ LoaderExtractProgress(r[1], r[2])
    \/ \E o \in {"ok", "ok_zip_kept", "err"}, c \in BOOLEAN : LoaderExtractDone(o, c)
    \/ \E io \in IoFaults, p \in SUBSET Paths : InstallConfig(io, p)
    \/ \E ok \in BOOLEAN : ModsBegin(ok)
    \/ \E r \in Reports : loc.cb < MaxCallbacks /\ ModsProgress(r[1], r[2])
    \/ \E ok \in BOOLEAN : ModsDone(ok)
    \/ InstallReturn

SpecInstall == Init /\ [][NextInstall]_vars

(* ------------- SyncPipeline: sync_latest_install_from_manifest -------- *)

SProgress(step, sp) ==
    Progress(loc.version, SYNC_STEPS_TOTAL, step, sp,
             overall_from_step(step, sp, SYNC_STEPS_TOTAL))

\* installer.rs:367-382: the last record's overall_percent is the literal 100.0
SyncCompleteRecord ==
    Progress(loc.version, SYNC_STEPS_TOTAL, 2, One, Rat(100, 1))

\* A `?` before the block of installer.rs:244-393: the function returns at once
SReturnEarly(res, reason) ==
    /\ loc' = [loc EXCEPT !.res = res, !.exit = reason]
    /\ pc' = "done"

\* A `?` inside the block of installer.rs:244-393
SFail(reason) == /\ loc' = [loc EXCEPT !.res = "err", !.exit = reason]
                 /\ pc' = "s_return"

\* Variant of the version gate that skips the sync only for an older remote
ManifestNewerThanRemote(local, remote) == local > remote

\* installer.rs:231 the version gate
ManifestUpToDate(local, remote) == local = remote

\* installer.rs:221-224: the function is entered; the versions root is scanned
StartSync(path_ok) ==
    /\ pc \in {"idle", "done"}
    /\ runs < MaxRuns
    /\ runs' = runs + 1
    /\ events' = <<>>
    /\ calls' = <<>>
    /\ pre' = fs
    /\ IF ~path_ok
       THEN /\ loc' = [NoLoc EXCEPT !.kind = "sync", !.res = "err", !.exit = "app_data_dir"]
            /\ pc' = "done"
       ELSE \E r \in latest_installed_version_dir(fs) :
              IF r.some
              THEN /\ loc' = [NoLoc EXCEPT !.kind = "sync", !.version = r.version,
                                           !.name = r.name]
                   /\ pc' = "s_fetch"
              ELSE /\ loc' = [NoLoc EXCEPT !.kind = "sync", !.res = "ok",
                                           !.exit = "no_installed_version"]
                   /\ pc' = "done"
    /\ fn' = NoteRun
    /\ UNCHANGED <<platform, fs>>

\* installer.rs:226-228
SyncFetchManifest(resp) ==
    /\ pc = "s_fetch"
    /\ Call("fetch_manifest")
    /\ LET r == fetch_manifest(resp)
       IN  IF r.ok
           THEN /\ loc' = [loc EXCEPT !.remote = r.version, !.gets = @ + r.gets]
                /\ pc' = "s_gate"
           ELSE /\ loc' = [loc EXCEPT !.res = "err", !.exit = "fetch_manifest",
                                      !.gets = @ + r.gets, !.http = r.err]
                /\ pc' = "done"
    /\ UNCHANGED <<platform, fn, fs, events, runs, pre>>

\* installer.rs:230-240: read the local state and compare
SyncGate(io_ok) ==
    /\ pc = "s_gate"
    /\ LET st == read_manifest_state(fs, io_ok)
       IN  IF ~st.ok THEN SReturnEarly("err", "read_manifest_state")
           ELSE IF ManifestUpToDate(st.manifest_version, loc.remote)
           THEN /\ loc' = [loc EXCEPT !.res = "ok", !.exit = "up_to_date",
                                      !.local = st.manifest_version]
                /\ pc' = "done"
           ELSE /\ loc' = [loc EXCEPT !.local = st.manifest_version]
                /\ pc' = "s_config"
    /\ UNCHANGED <<platform, fn, fs, events, calls, runs, pre>>

\* installer.rs:246-279: step 1 start; download default_config.zip and write it
\* to game_root/.hq-launcher/tmp/config
SyncConfigDownload(outcome) ==
    /\ pc = "s_config"
    /\ Emit(<<SProgress(1, Zero)>>)
    /\ Call("get_default_config")
    /\ CASE outcome = "ok" ->
              /\ fs' = [fs EXCEPT !.versions[loc.name].cfgzip = TRUE]
              /\ pc' = "s_junction"
              /\ UNCHANGED loc
         [] outcome = "write_err" -> SFail("write_config_zip") /\ UNCHANGED fs
         [] OTHER -> SFail("get_default_config") /\ UNCHANGED fs
    /\ UNCHANGED <<platform, fn, runs, pre>>

\* installer.rs:281-287: the link, then the extraction is handed to the worker
SyncEnsureJunction(io, processed) ==
    /\ pc = "s_junction"
    /\ LET r == ensure_config_junction(platform, fs, loc.name, io, processed)
       IN  /\ fs' = r.fs
           /\ IF r.ok
              THEN /\ calls' = calls \o <<"ensure_config_junction", "extract_config_zip">>
                   /\ pc' = "s_extract"
                   /\ UNCHANGED loc
              ELSE /\ Call("ensure_config_junction")
                   /\ SFail("ensure_config_junction")
    /\ UNCHANGED <<platform, fn, events, runs, pre>>

\* installer.rs:291-314: the extraction's progress callback
SyncExtractProgress(done, total) ==
    /\ pc = "s_extract"
    /\ loc' = [loc EXCEPT !.cb = @ + 1]
    /\ Emit(<<SProgress(1, callback_progress(done, total))>>)
    /\ fn' = NoteReport(done, total)
    /\ UNCHANGED <<platform, fs, pc, calls, runs, pre>>

\* zip_utils::extract_config_zip_into_bepinex_config_with_progress: the package's
\* files are added to the shared directory, none overwritten
ExtractConfig(f) ==
    [f EXCEPT !.shared.files = copy_dir_add_only(PackConfig, @, FALSE, Paths).files]

\* installer.rs:315-340: the extraction ends, the archive is removed (best
\* effort); step 2 starts and the mods collaborator is called
SyncExtractDone(outcome) ==
    /\ pc = "s_extract"
    /\ CASE outcome = "err" ->
              SFail("extract_config_zip") /\ UNCHANGED <<fs, events, calls>>
         [] OTHER ->
              /\ fs' = [ExtractConfig(fs) EXCEPT
                          !.versions[loc.name].cfgzip = (outcome = "ok_zip_kept")]
              /\ Emit(<<SProgress(2, Zero)>>)
              /\ Call("install_mods")
              /\ pc' = "s_mods"
              /\ UNCHANGED loc
    /\ fn' = ClearReport
    /\ UNCHANGED <<platform, runs, pre>>

\* installer.rs:340-363: the mods collaborator's progress callback
SyncModsProgress(done, total) ==
    /\ pc = "s_mods"
    /\ loc' = [loc EXCEPT !.cb = @ + 1]
    /\ Emit(<<SProgress(2, callback_progress(done, total))>>)
    /\ fn' = NoteReport(done, total)
    /\ UNCHANGED <<platform, fs, pc, calls, runs, pre>>

\* Variant of SyncModsDone that writes the manifest state before it looks at
\* what install_mods returned
SyncModsDoneWriteFirst(outcome) ==
    /\ pc = "s_mods"
    /\ CASE outcome = "mods_err" ->
              /\ fs' = write_manifest_state(fs, loc.remote, TRUE).fs
              /\ SFail("install_mods")
              /\ UNCHANGED events
         [] OTHER ->
              /\ fs' = write_manifest_state(
                           [fs EXCEPT !.versions[loc.name].mods = TRUE,
                                      !.versions[loc.name].plugins = TRUE],
                           loc.remote, outcome = "ok").fs
              /\ Emit(<<SyncCompleteRecord>>)
              /\ loc' = [loc EXCEPT !.res = "ok"]
              /\ pc' = "s_return"
    /\ fn' = ClearReport
    /\ UNCHANGED <<platform, calls, runs, pre>>

\* Variant of SyncModsDone that drops the result of write_manifest_state
SyncModsDoneIgnoreWrite(outcome) ==
    /\ pc = "s_mods"
    /\ CASE outcome = "mods_err" ->
              SFail("install_mods") /\ UNCHANGED <<fs, events>>
         [] OTHER ->
              /\ fs' = write_manifest_state(
                           [fs EXCEPT !.versions[loc.name].mods = TRUE,
                                      !.versions[loc.name].plugins = TRUE],
                           loc.remote, outcome = "ok").fs
              /\ Emit(<<SyncCompleteRecord>>)
              /\ loc' = [loc EXCEPT !.res = "ok"]
              /\ pc' = "s_return"
    /\ fn' = ClearReport
    /\ UNCHANGED <<platform, calls, runs, pre>>

\* Variant of SyncModsDone that ends the run without writing the manifest state
SyncModsDoneNoWrite(outcome) ==
    /\ pc = "s_mods"
    /\ CASE outcome = "mods_err" ->
              SFail("install_mods") /\ UNCHANGED <<fs, events>>
         [] OTHER ->
              /\ fs' = [fs EXCEPT !.versions[loc.name].mods = TRUE,
                                  !.versions[loc.name].plugins = TRUE]
              /\ Emit(<<SyncCompleteRecord>>)
              /\ loc' = [loc EXCEPT !.res = "ok"]
              /\ pc' = "s_return"
    /\ fn' = ClearReport
    /\ UNCHANGED <<platform, calls, runs, pre>>

\* installer.rs:364-391: install_mods returns; the completion record; the
\* manifest state is written
SyncModsDone(outcome) ==
    /\ pc = "s_mods"
    /\ CASE outcome = "mods_err" ->
              SFail("install_mods") /\ UNCHANGED <<fs, events>>
         [] OTHER ->
              LET w == write_manifest_state(
                           [fs EXCEPT !.versions[loc.name].mods = TRUE,
                                      !.versions[loc.name].plugins = TRUE],
                           loc.remote, outcome = "ok")
              IN  /\ fs' = w.fs
                  /\ Emit(<<SyncCompleteRecord>>)
                  /\ IF w.ok THEN /\ loc' = [loc EXCEPT !.res = "ok"]
                                  /\ pc' = "s_return"
                     ELSE SFail("write_manifest_state")
    /\ fn' = ClearReport
    /\ UNCHANGED <<platform, calls, runs, pre>>

\* Variant of SyncReturn that emits Finished whatever the block returned
SyncReturnAlwaysFinished ==
    /\ pc = "s_return"
    /\ Emit(<<Finished(loc.version)>>)
    /\ pc' = "done"
    /\ UNCHANGED <<platform, fn, fs, loc, calls, runs, pre>>

\* installer.rs:395-416: the block's result decides the terminal event
SyncReturn ==
    /\ pc = "s_return"
    /\ IF loc.res = "ok" THEN Emit(<<Finished(loc.version)>>)
                         ELSE Emit(<<Error(loc.version)>>)
    /\ pc' = "done"
    /\ UNCHANGED <<platform, fn, fs, loc, calls, runs, pre>>

NextSync ==
    \/ \E ok \in BOOLEAN : StartSync(ok)
    \/ \E resp \in Responses : SyncFetchManifest(resp)
    \/ \E ok \in BOOLEAN : SyncGate(ok)
    \/ \E o \in {"ok", "write_err", "get_err"} : SyncConfigDownload(o)
    \/ \E io \in IoFaults, p \in SUBSET Paths : SyncEnsureJunction(io, p)
    \/ \E r \in Reports : loc.cb < MaxCallbacks /\ SyncExtractProgress(r[1], r[2])
    \/ \E o \in {"ok", "ok_zip_kept", "err"} : SyncExtractDone(o)
    \/ \E r \in Reports : loc.cb < MaxCallbacks /\ SyncModsProgress(r[1], r[2])
    \/ \E o \in {"ok", "mods_err", "write_err"} : SyncModsDone(o)
    \/ SyncReturn

SpecSync == Init /\ [][NextSync]_vars

Next == NextInstall \/ NextSync

Spec == Init /\ [][Next]_vars

(* ------------------------------ properties ---------------------------- *)

CountOf(type) == Cardinality({i \in DOMAIN events : events[i].type = type})
Terminals == CountOf("finished") + CountOf("error")
ProgressRecords == SelectSeq(events, LAMBDA e : e.type = "progress")
IsFraction(r) == RatLt(Zero, r) /\ RatLt(r, One)

\* manifestVersion as ManifestState holds it: 0 when the file is absent
PersistedVersion(f) == IF f.manifest_state.exists THEN f.manifest_state.manifest_version ELSE 0

InstallRunOver == loc.kind = "install" /\ pc = "done"
SyncRunOver == loc.kind = "sync" /\ pc = "done"

\* The exits of sync_latest_install_from_manifest taken before its block starts
EarlyExits == {"app_data_dir", "no_installed_version", "fetch_manifest",
               "read_manifest_state", "up_to_date"}
\* The `?` exits inside step 1 (Sync Config) and step 2 (Sync Mods)
StepFailures == {"get_default_config", "write_config_zip", "ensure_config_junction",
                 "extract_config_zip", "install_mods"}

\* C1: every run of download_and_setup emits exactly one terminal event, Finished
\* when it returns Ok and Error when it returns Err; while it runs it has emitted
\* at most one.
C1_InstallOneTerminal ==
    /\ loc.kind = "install" => Terminals <= 1
    /\ InstallRunOver =>
         /\ Terminals = 1
         /\ loc.res \in {"ok", "err"}
         /\ loc.res = "ok" <=> CountOf("finished") = 1
         /\ loc.res = "err" <=> CountOf("error") = 1

\* C1 witness: a run that failed in the last step has returned
C1_Witness ==
    InstallRunOver /\ loc.exit = "install_mods" /\ events[Len(events)].type = "error"

\* C2 as stated: every exit of sync_latest_install_from_manifest has emitted
\* exactly one terminal event.
C2_SyncOneTerminalEveryExit == SyncRunOver => Terminals = 1

\* C2 amended: a sync run emits at most one terminal event; a run that enters the
\* two-step block (a version is installed, the manifest fetch and the state read
\* succeeded, the versions differ) ends with exactly one, Finished on Ok and Error
\* on Err; a run that exits before the block emits nothing.
C2_SyncOneTerminalPastGate ==
    /\ loc.kind = "sync" => Terminals <= 1
    /\ SyncRunOver /\ loc.exit \in EarlyExits => events = <<>>
    /\ SyncRunOver /\ loc.exit \notin EarlyExits =>
         /\ Terminals = 1
         /\ loc.res = "ok" <=> CountOf("finished") = 1
         /\ loc.res = "err" <=> CountOf("error") = 1

\* C2 witness: a run that failed in step 1 has returned with its Error event
C2_Witness ==
    SyncRunOver /\ loc.exit = "extract_config_zip" /\ CountOf("error") = 1

\* The run has fetched the remote manifest
SyncFetched ==
    /\ loc.kind = "sync"
    /\ \/ pc \in {"s_gate", "s_config", "s_junction", "s_extract", "s_mods", "s_return"}
       \/ pc = "done" /\ loc.exit \notin {"app_data_dir", "no_installed_version", "fetch_manifest"}

\* C3: a sync run whose fetched manifestVersion equals the persisted one changes
\* nothing: the file system (links, shared directory, temporary archive, manifest
\* state) is as it was when the run started, nothing was emitted, and the manifest
\* fetch is the only call made (no package download, no mods installation).
C3_SyncNoOpWhenUpToDate ==
    SyncFetched /\ loc.remote = PersistedVersion(pre) =>
        /\ fs = pre
        /\ events = <<>>
        /\ calls = <<"fetch_manifest">>
        /\ pc \in {"s_gate", "done"}

\* C3 witness: a run returned at the gate with equal, non-zero versions
C3_Witness ==
    /\ SyncRunOver /\ loc.exit = "up_to_date"
    /\ loc.remote = PersistedVersion(fs) /\ loc.remote > 0

\* C4: a sync run that failed in step 1 or step 2 has left the persisted manifest
\* state as it was and has ended with one Error event (and no Finished).
C4_SyncFailureKeepsState ==
    SyncRunOver /\ loc.exit \in StepFailures =>
        /\ loc.res = "err"
        /\ fs.manifest_state = pre.manifest_state
        /\ CountOf("error") = 1 /\ CountOf("finished") = 0
        /\ events[Len(events)].type = "error"

\* C4 witness: step 2 failed after step 1 had changed the shared directory
C4_Witness ==
    SyncRunOver /\ loc.exit = "install_mods" /\ fs.shared # pre.shared

SyncStepsCompleted ==
    /\ calls = <<"fetch_manifest", "get_default_config", "ensure_config_junction",
                 "extract_config_zip", "install_mods">>
    /\ fs.versions[loc.name].mods
    /\ \E i, j \in DOMAIN ProgressRecords :
          /\ i < j /\ j = Len(ProgressRecords)
          /\ ProgressRecords[i].step = 1
          /\ ProgressRecords[j] = SyncCompleteRecord

\* C5: once a sync run has emitted Finished the state file holds the version the
\* run fetched; and the state file differs from what it was at the run's start
\* only after both steps have completed (Sync Config, then Sync Mods).
C5_SyncFinishedAfterPersist ==
    /\ loc.kind = "sync" /\ CountOf("finished") > 0 =>
          /\ fs.manifest_state = [exists |-> TRUE, manifest_version |-> loc.remote]
          /\ SyncStepsCompleted
    /\ loc.kind = "sync" /\ fs.manifest_state # pre.manifest_state => SyncStepsCompleted

\* C5 witness: Finished has been emitted for a run that replaced an older version
C5_Witness ==
    /\ SyncRunOver /\ CountOf("finished") = 1
    /\ pre.manifest_state.exists /\ PersistedVersion(pre) # loc.remote

\* C6 as stated: no step ever replaces the persisted manifestVersion by a smaller one.
C6_PersistedNeverDecreases ==
    [][PersistedVersion(fs') >= PersistedVersion(fs)]_vars

\* C6 amended: a sync run changes the persisted manifestVersion only to the value
\* it fetched, and only when that value differs from the persisted one; so the
\* persisted value decreases only when a run fetched a smaller value than the
\* persisted one (and then it becomes that smaller value).
C6_PersistedFollowsRemote ==
    [][ /\ fs'.manifest_state # fs.manifest_state =>
              /\ loc.kind = "sync"
              /\ fs'.manifest_state = [exists |-> TRUE, manifest_version |-> loc.remote]
              /\ loc.remote # PersistedVersion(fs)
        /\ PersistedVersion(fs') < PersistedVersion(fs) => loc.remote < PersistedVersion(fs)
      ]_vars

\* C6 witness: a second run has replaced the version the first run persisted
C6_Witness ==
    /\ runs = 2 /\ loc.kind = "sync" /\ pc = "s_return" /\ loc.res = "ok"
    /\ PersistedVersion(fs) # PersistedVersion(pre)
    /\ PersistedVersion(pre) > 0

\* C7: with no installed version directory under the versions root (no root, or no
\* directory named v<number>), a sync run returns Ok at once: nothing emitted, no
\* call made, the file system and the manifest state as they were.
C7_SyncSilentWithoutInstall ==
    LET installed(n) == /\ pre.root
                        /\ pre.versions[n].kind = "dir"
                        /\ StripPrefixV(n).ok
                        /\ ParseU32(StripPrefixV(n).rest).ok
        scanned == loc.kind = "sync" /\ loc.exit # "app_data_dir"
    IN  (scanned /\ ~\E n \in Names : installed(n)) =>
            /\ pc = "done"
            /\ loc.res = "ok"
            /\ events = <<>>
            /\ calls = <<>>
            /\ fs = pre

\* C7 witness: the root holds only a file with a matching name, and the run is over
C7_Witness ==
    /\ SyncRunOver /\ loc.exit = "no_installed_version"
    /\ pre.root /\ pre.versions[<<"v", "0", "3">>].kind = "file"

\* C8: when the login check reports not logged in, the run stops there: the calls
\* made are the downloader installation and the login query only, no entry of the
\* versions root, the shared directory or the temporary archive has changed, and
\* no progress record has a step index above 1.
C8_NotLoggedInStops ==
    loc.kind = "install" /\ loc.exit = "not_logged_in" =>
        /\ pc \in {"i_return", "done"}
        /\ loc.res = "err"
        /\ calls = <<"install_downloader", "get_login_state">>
        /\ fs.versions = pre.versions
        /\ fs.shared = pre.shared
        /\ fs.temp_zip = pre.temp_zip
        /\ fs.manifest_state = pre.manifest_state
        /\ \A i \in DOMAIN events : events[i].type = "progress" => events[i].step <= 1

\* C8 witness: such a run is over and an install existed for the version asked for
C8_Witness ==
    /\ InstallRunOver /\ loc.exit = "not_logged_in"
    /\ pre.versions[loc.name].kind = "dir"
    /\ CountOf("error") = 1

\* C9 as stated: a run that fails because the manifest has no depot id for the
\* game version leaves a pre-existing versions/v<gameVersion> as it was.
C9_MissingIdKeepsVersionDir ==
    loc.kind = "install" /\ loc.exit = "no_manifest_id" /\ pre.versions[loc.name].kind # "none"
        => fs.versions[loc.name] = pre.versions[loc.name]

StepRecords(k) == SelectSeq(ProgressRecords, LAMBDA e : e.step = k)

\* C10: in a successful install run the progress records' step indices never
\* decrease; each step 1..5 starts with a record of progress 0 and ends with a
\* record of progress 1 (so step k's end precedes step k+1's start); steps 2 and 4
\* have no record with a progress strictly between 0 and 1.
C10_InstallStepRecords ==
    loc.kind = "install" /\ loc.res = "ok" =>
        /\ \A i, j \in DOMAIN ProgressRecords :
              i < j => ProgressRecords[i].step <= ProgressRecords[j].step
        /\ \A k \in 1..INSTALL_STEPS_TOTAL :
              /\ Len(StepRecords(k)) >= 2
              /\ StepRecords(k)[1].step_progress = Zero
              /\ StepRecords(k)[Len(StepRecords(k))].step_progress = One
        /\ \A i \in DOMAIN ProgressRecords :
              ProgressRecords[i].step \in {2, 4} => ~IsFraction(ProgressRecords[i].step_progress)
        /\ \A i \in DOMAIN ProgressRecords : ProgressRecords[i].step \in 1..INSTALL_STEPS_TOTAL

\* C10 witness: a successful run whose step 3 reported a fraction
C10_Witness ==
    /\ InstallRunOver /\ loc.res = "ok"
    /\ \E i \in DOMAIN ProgressRecords :
          ProgressRecords[i].step = 3 /\ IsFraction(ProgressRecords[i].step_progress)


(* ------------------- failures of the InstallPipeline ------------------ *)

\* The exits of download_and_setup by the step they belong to (the manifest
\* fetch sits between step 1 and step 2)
ExitsBeforeStep2 == {"install_downloader", "create_versions_root", "downloader_new",
                     "not_logged_in", "fetch_manifest"}
ExitsInStep2 == {"purge_version_dir", "no_manifest_id", "download_depot"}
ExitsInStep3 == {"create_temp_file", "get_loader_package", "loader_stream", "open_zip",
                 "bad_magic", "extract_loader"}
ExitsInStep4 == {"ensure_config_junction"}
ExitsInStep5 == {"create_plugins_dir", "install_mods"}
FailedStep ==
    IF loc.exit \in ExitsBeforeStep2 THEN 1
    ELSE IF loc.exit \in ExitsInStep2 THEN 2
    ELSE IF loc.exit \in ExitsInStep3 THEN 3
    ELSE IF loc.exit \in ExitsInStep4 THEN 4
    ELSE 5
\* The collaborator and network calls each step makes
CallsOfStep(k) ==
    IF k = 2 THEN {"download_depot"}
    ELSE IF k = 3 THEN {"get_loader_package", "extract_thunderstore_package"}
    ELSE IF k = 4 THEN {"ensure_config_junction"}
    ELSE IF k = 5 THEN {"install_mods"}
    ELSE {"install_downloader", "get_login_state"}
CallsMade == {calls[i] : i \in DOMAIN calls}
InstalledEntry == fs.versions[loc.name]

\* C11: a failed install run stops at the failing step and rolls nothing back. When
\* it has returned, what the completed steps wrote is there (after step 2 the
\* version directory with the whole game, after step 3 the loader's files, after
\* step 4 the config link and the shared directory), no step after the failing
\* one has emitted a record or made a call, and the last event is the Error.
C11_InstallFailureNoRollback ==
    InstallRunOver /\ loc.res = "err" =>
        /\ FailedStep > 2 => InstalledEntry.kind = "dir" /\ InstalledEntry.game = "full"
        /\ FailedStep > 3 => InstalledEntry.loader /\ InstalledEntry.bepinex
        /\ FailedStep > 4 => /\ InstalledEntry.config = create_dir_junction(platform)
                             /\ fs.shared.exists
        /\ \A i \in DOMAIN events :
               events[i].type = "progress" => events[i].step <= FailedStep
        /\ \A k \in 2..5 : k > FailedStep => CallsOfStep(k) \cap CallsMade = {}
        /\ events[Len(events)].type = "error"

\* C11 witness: a run that failed in step 5 has returned; game, loader and config
\* link are in place
C11_Witness ==
    /\ InstallRunOver /\ loc.exit = "install_mods"
    /\ InstalledEntry.game = "full" /\ InstalledEntry.loader
    /\ InstalledEntry.config = create_dir_junction(platform)

\* The run got past the end of the loader download with an archive that does not
\* start with 'P','K' (and could open it for the check)
ArchiveRejected ==
    /\ loc.kind = "install"
    /\ loc.downloaded = Len(loc.body) /\ BadMagic(loc.body)
    /\ \/ pc \in {"i_extract", "i_config", "i_mods", "i_mods_run"}
       \/ /\ pc \in {"i_return", "done"}
          /\ loc.exit \in {"", "bad_magic", "extract_loader"} \cup ExitsInStep4 \cup ExitsInStep5
\* What holds of such a run besides the archive's removal
RejectedRunStops ==
    /\ loc.exit = "bad_magic" /\ loc.res = "err"
    /\ "extract_thunderstore_package" \notin CallsMade
    /\ (CallsOfStep(4) \cup CallsOfStep(5)) \cap CallsMade = {}
    /\ \A i \in DOMAIN events : events[i].type = "progress" => events[i].step <= 3
    /\ pc = "done" => events[Len(events)].type = "error" /\ Terminals = 1

\* C12 as stated: an archive that does not start with 'P','K' (also one shorter
\* than two bytes) is rejected: the archive file is deleted, the extraction is
\* never invoked, steps 4 and 5 do not run, the run ends with an Error event.
C12_BadArchiveDeleted ==
    ArchiveRejected => RejectedRunStops /\ fs.temp_zip = NoZip

\* C12 amended: such an archive is rejected, never extracted, steps 4 and 5 do not
\* run and the run ends with an Error event; the archive's removal is attempted
\* and its failure ignored, so the file is either gone or left as downloaded.
C12_BadArchiveRejected ==
    ArchiveRejected =>
        /\ RejectedRunStops
        /\ fs.temp_zip \in {NoZip, [exists |-> TRUE, bytes |-> loc.body]}

\* C12 witness: a one-byte archive was rejected and removed; the run has returned
C12_Witness ==
    /\ InstallRunOver /\ loc.exit = "bad_magic" /\ Len(loc.body) = 1
    /\ fs.temp_zip = NoZip /\ events[Len(events)].type = "error"

(* --------------------- ensure_config_junction, called ------------------ *)

\* Trees of a per-version config directory (files hold "NEW") and of the shared
\* directory (files hold "OLD"); a top entry can be a file, a directory or, in a
\* config directory, a symlink.
ConfigTrees ==
    {t \in [Paths -> {Absent, "NEW", Dir, Symlink}] :
        /\ IsTree(t)
        /\ \A p \in Paths : Len(p) > 1 => t[p] \in {Absent, "NEW"}}
SharedTrees ==
    {t \in [Paths -> {Absent, "OLD", Dir}] :
        /\ IsTree(t)
        /\ \A p \in Paths : Len(p) > 1 => t[p] \in {Absent, "OLD"}}

\* The game root ensure_config_junction is called on
LinkRoot == VersionDirName(1)
LinkWorld(config, shared, other) ==
    [Fs(TRUE, [NoVersions EXCEPT ![LinkRoot] = [LegacyInstall EXCEPT !.config = config]],
        shared, NoState) EXCEPT !.other = other]
SharedDirs == {NoShared} \cup {[exists |-> TRUE, files |-> t] : t \in SharedTrees}
OtherDirs == {NoOther} \cup {[exists |-> TRUE, files |-> t] : t \in ConfigTrees}
\* The config path holds nothing, a file, a link to the shared directory, a
\* genuine directory, or a link to a directory elsewhere (which may be gone)
LinkWorlds ==
    {LinkWorld(c, sh, NoOther) :
        c \in {NoConfig, ConfigFile, ConfigLink("shared")} \cup {ConfigDir(t) : t \in ConfigTrees},
        sh \in SharedDirs}
    \cup {LinkWorld(ConfigLink("other"), sh, o) : sh \in SharedDirs, o \in OtherDirs}

InitLink ==
    /\ platform \in {"windows", "unix"}
    /\ fs \in LinkWorlds
    /\ pc = "idle" /\ loc = NoLoc /\ events = <<>> /\ calls = <<>> /\ runs = 0
    /\ pre = fs
    /\ fn = [op |-> "ensure_config_junction", n |-> 0, ret1 |-> ErrMessage,
             ret2 |-> ErrMessage, mid |-> fs]

\* ensure_config_junction(app, versions/v1), the first call
EnsureFirst(io, processed) ==
    /\ fn.op = "ensure_config_junction" /\ fn.n = 0
    /\ LET r == ensure_config_junction(platform, fs, LinkRoot, io, processed)
       IN  /\ fs' = r.fs
           /\ fn' = [fn EXCEPT !.n = 1, !.ret1 = r.ret, !.mid = r.fs]
    /\ UNCHANGED <<platform, pc, loc, events, calls, runs, pre>>

\* The same call again, directly after a first call that returned Ok
EnsureSecond(io, processed) ==
    /\ fn.op = "ensure_config_junction" /\ fn.n = 1 /\ fn.ret1.ok
    /\ LET r == ensure_config_junction(platform, fs, LinkRoot, io, processed)
       IN  /\ fs' = r.fs
           /\ fn' = [fn EXCEPT !.n = 2, !.ret2 = r.ret]
    /\ UNCHANGED <<platform, pc, loc, events, calls, runs, pre>>

NextLink ==
    \/ \E io \in IoFaults, p \in SUBSET Paths : EnsureFirst(io, p)
    \/ \E io \in IoFaults, p \in SUBSET Paths : EnsureSecond(io, p)

SpecLink == InitLink /\ [][NextLink]_vars

\* The config path before the first call, after it, and now
ConfigBefore == pre.versions[LinkRoot].config
ConfigAfterFirst == fn.mid.versions[LinkRoot].config
FirstCallDone == fn.op = "ensure_config_junction" /\ fn.n >= 1
SecondCallDone == fn.op = "ensure_config_junction" /\ fn.n = 2

\* C13: ensure_config_junction is idempotent. A second call made directly after a
\* successful first call, when it returns Ok, has left the whole file system
\* (config path, shared directory, everything else) as the first call left it
\* and returns the same shared path; where the first call made a real link, the
\* second call changes nothing even when one of its file-system calls fails.
C13_EnsureLinkIdempotent ==
    SecondCallDone =>
        /\ fn.ret2.ok => fs = fn.mid /\ fn.ret2 = fn.ret1
        /\ ConfigAfterFirst = ConfigLink("shared") => fs = fn.mid

\* C13 witness: two successful calls on a root that had a genuine config
\* directory with a file the shared directory lacked
C13_Witness ==
    /\ SecondCallDone /\ fn.ret2.ok
    /\ ConfigBefore.kind = "dir" /\ ConfigBefore.files[<<"a.cfg">>] = "NEW"
    /\ fs.shared.files[<<"a.cfg">>] = "NEW"
    /\ ConfigAfterFirst = ConfigLink("shared")

\* C14: where no junction can be made, the fallback (a plain directory at the
\* config path) is surfaced: a successful call that left a plain directory does
\* not return the plain success Ok(shared) that a call which made a link returns.
C14_FallbackSurfaced ==
    FirstCallDone /\ fn.ret1.ok /\ ConfigAfterFirst.kind = "dir" => fn.ret1 # OkShared

\* C15: when the config path is a link to a directory other than the shared one,
\* only the link is removed: the directory it pointed to is unchanged and nothing
\* is copied from it into the shared directory.
C15_ForeignLinkOnlyUnlinked ==
    FirstCallDone /\ ConfigBefore = ConfigLink("other") /\ pre.other.exists =>
        /\ fn.mid.other = pre.other
        /\ fn.mid.shared.files = pre.shared.files

\* C16: when the config path is a genuine directory, a successful call has merged
\* it into the shared directory add-only and removed the original: every file the
\* shared directory had keeps its content, every file of the original whose
\* path was absent from the shared directory is there with the original's
\* content, and none of the original's files is left at the config path.
C16_GenuineDirMerged ==
    FirstCallDone /\ fn.ret1.ok /\ ConfigBefore.kind = "dir" =>
        /\ \A p \in Paths :
              /\ pre.shared.files[p] \in Contents =>
                    fn.mid.shared.files[p] = pre.shared.files[p]
              /\ ConfigBefore.files[p] \in Contents /\ pre.shared.files[p] = Absent =>
                    fn.mid.shared.files[p] = ConfigBefore.files[p]
        /\ ConfigAfterFirst = create_dir_junction(platform)

(* ------------------------ copy_dir_add_only, called -------------------- *)

\* src and dst are two directories, or one and the same directory
CopyInputs ==
    {[src |-> a, dst |-> b, same |-> FALSE] : a \in ConfigTrees, b \in SharedTrees}
    \cup {[src |-> b, dst |-> b, same |-> TRUE] : b \in SharedTrees}

InitCopy ==
    /\ platform = "unix"
    /\ fs = Fs(FALSE, NoVersions, NoShared, NoState)
    /\ pc = "idle" /\ loc = NoLoc /\ events = <<>> /\ calls = <<>> /\ runs = 0
    /\ pre = fs
    /\ \E in \in CopyInputs :
          fn = [op |-> "copy_dir_add_only", src |-> in.src, dst |-> in.dst, same |-> in.same,
                src0 |-> in.src, dst0 |-> in.dst, called |-> FALSE, ok |-> FALSE]

\* copy_dir_add_only(src, dst): dst becomes what the call left; src is only read
\* (it changes with dst when both are the same directory)
CopyCall(processed) ==
    /\ fn.op = "copy_dir_add_only" /\ ~fn.called
    /\ LET r == copy_dir_add_only(fn.src, fn.dst, fn.same, processed)
       IN  fn' = [fn EXCEPT !.called = TRUE, !.ok = r.ok, !.dst = r.files,
                            !.src = IF fn.same THEN r.files ELSE @]
    /\ UNCHANGED <<platform, fs, pc, loc, events, calls, runs, pre>>

NextCopy == \E p \in SUBSET Paths : CopyCall(p)

SpecCopy == InitCopy /\ [][NextCopy]_vars

CopyDone == fn.op = "copy_dir_add_only" /\ fn.called

\* C17: copy_dir_add_only is an add-only merge. After any call every file dst had
\* keeps its content (also where src has a file at the same path), nothing dst
\* had is removed, and src is unchanged; after a successful call every file of
\* src at a path absent from dst is in dst with src's content, also inside a
\* subdirectory dst already had, and dst is still a tree.
C17_CopyIsAddOnlyMerge ==
    CopyDone =>
        /\ \A p \in Paths : fn.dst0[p] # Absent => fn.dst[p] = fn.dst0[p]
        /\ fn.src = fn.src0
        /\ fn.ok => /\ \A p \in Paths :
                          fn.src0[p] \in Contents /\ fn.dst0[p] = Absent =>
                              fn.dst[p] = fn.src0[p]
                    /\ IsTree(fn.dst)

\* C17 witness: a successful call with a.cfg in both (dst keeps "OLD") and
\* sub/b.cfg only in src, below a subdirectory dst already had
C17_Witness ==
    /\ CopyDone /\ fn.ok /\ ~fn.same
    /\ fn.src0[<<"a.cfg">>] = "NEW" /\ fn.dst0[<<"a.cfg">>] = "OLD"
    /\ fn.dst[<<"a.cfg">>] = "OLD"
    /\ fn.dst0[<<"sub">>] = Dir /\ fn.dst0[<<"sub", "b.cfg">>] = Absent
    /\ fn.dst[<<"sub", "b.cfg">>] = "NEW"

(* ------------------- mod_config.rs: ModEntry, called ------------------- *)

\* Option<u32> and Option<&str>
NoCap == [some |-> FALSE, value |-> 0]
SomeCap(v) == [some |-> TRUE, value |-> v]
NoPin == [some |-> FALSE, value |-> <<>>]
SomePin(s) == [some |-> TRUE, value |-> s]

\* Game versions and caps; threshold keys of version_config
CapValues == {0, 1, 2, 3}
PinKeys == {1, 3}
\* Strings, as character sequences: "1.0.1", "0.0.0", "0.0", " 0.0.0\n"
Sentinel == <<"0", ".", "0", ".", "0">>
PinStrings == {<<"1", ".", "0", ".", "1">>, Sentinel, <<"0", ".", "0">>,
               <<" ">> \o Sentinel \o <<"\n">>}
Whitespace == {" ", "\t", "\n", "\r"}

\* str::trim
RECURSIVE TrimStart(_)
TrimStart(s) == IF s # <<>> /\ Head(s) \in Whitespace THEN TrimStart(Tail(s)) ELSE s
RECURSIVE TrimEnd(_)
TrimEnd(s) ==
    IF s # <<>> /\ s[Len(s)] \in Whitespace THEN TrimEnd(SubSeq(s, 1, Len(s) - 1)) ELSE s
Trim(s) == TrimEnd(TrimStart(s))

\* mod_config.rs:12 ModEntry (name and dev play no part in the two methods)
ModEntries ==
    {[enabled |-> en, low_cap |-> lo, high_cap |-> hi, version_config |-> vc] :
        en \in BOOLEAN,
        lo \in {NoCap} \cup {SomeCap(v) : v \in CapValues},
        hi \in {NoCap} \cup {SomeCap(v) : v \in CapValues},
        vc \in UNION {[K -> PinStrings] : K \in SUBSET PinKeys}}

\* Variant of is_compatible whose lower bound is exclusive
is_compatible_above_low(m, game_version) ==
    IF ~m.enabled THEN FALSE
    ELSE IF m.low_cap.some /\ game_version <= m.low_cap.value THEN FALSE
    ELSE IF m.high_cap.some /\ game_version > m.high_cap.value THEN FALSE
    ELSE TRUE

\* mod_config.rs:128 ModEntry::is_compatible
is_compatible(m, game_version) ==
    IF ~m.enabled THEN FALSE
    ELSE IF m.low_cap.some /\ game_version < m.low_cap.value THEN FALSE
    ELSE IF m.high_cap.some /\ game_version > m.high_cap.value THEN FALSE
    ELSE TRUE

\* Variant of pinned_version_for that passes over "0.0.0" entries and takes the
\* greatest key that holds a pin
pinned_version_skip_unpinned(m, game_version) ==
    LET keys == {k \in DOMAIN m.version_config :
                    k <= game_version /\ Trim(m.version_config[k]) # Sentinel}
    IN  IF keys = {} THEN NoPin
        ELSE SomePin(m.version_config[CHOOSE k \in keys : \A o \in keys : o <= k])

\* mod_config.rs:145 ModEntry::pinned_version_for: range(..=game_version)
\* .next_back(), then the "0.0.0" test on the trimmed value
pinned_version_for(m, game_version) ==
    LET keys == {k \in DOMAIN m.version_config : k <= game_version}
    IN  IF keys = {} THEN NoPin
        ELSE LET v == m.version_config[CHOOSE k \in keys : \A o \in keys : o <= k]
             IN  IF Trim(v) = Sentinel THEN NoPin ELSE SomePin(v)

InitMods ==
    /\ platform = "unix"
    /\ fs = Fs(FALSE, NoVersions, NoShared, NoState)
    /\ pc = "idle" /\ loc = NoLoc /\ events = <<>> /\ calls = <<>> /\ runs = 0
    /\ pre = fs
    /\ \E m \in ModEntries, v \in CapValues :
          fn = [op |-> "mod_entry", entry |-> m, game_version |-> v,
                compat_called |-> FALSE, compat |-> FALSE,
                pin_called |-> FALSE, pin |-> NoPin]

\* entry.is_compatible(game_version)
IsCompatibleCall ==
    /\ fn.op = "mod_entry" /\ ~fn.compat_called
    /\ fn' = [fn EXCEPT !.compat_called = TRUE,
                        !.compat = is_compatible(fn.entry, fn.game_version)]
    /\ UNCHANGED <<platform, fs, pc, loc, events, calls, runs, pre>>

\* entry.pinned_version_for(game_version)
PinnedVersionCall ==
    /\ fn.op = "mod_entry" /\ ~fn.pin_called
    /\ fn' = [fn EXCEPT !.pin_called = TRUE,
                        !.pin = pinned_version_for(fn.entry, fn.game_version)]
    /\ UNCHANGED <<platform, fs, pc, loc, events, calls, runs, pre>>

NextMods == IsCompatibleCall \/ PinnedVersionCall

SpecMods == InitMods /\ [][NextMods]_vars

\* C18: is_compatible(mod, v) is enabled and (low_cap unset or v >= low_cap) and
\* (high_cap unset or v <= high_cap): false whenever the entry is disabled, both
\* bounds inclusive.
C18_IsCompatibleFormula ==
    fn.op = "mod_entry" /\ fn.compat_called =>
        LET m == fn.entry
            v == fn.game_version
        IN  /\ fn.compat <=> /\ m.enabled
                             /\ ~m.low_cap.some \/ v >= m.low_cap.value
                             /\ ~m.high_cap.some \/ v <= m.high_cap.value
            /\ ~m.enabled => ~fn.compat

\* C18 witness: an enabled entry is compatible with the version equal to both of
\* its bounds
C18_Witness ==
    /\ fn.op = "mod_entry" /\ fn.compat_called /\ fn.compat
    /\ fn.entry.low_cap = SomeCap(fn.game_version)
    /\ fn.entry.high_cap = SomeCap(fn.game_version)

\* The keys of the entry's version_config that are <= the game version, and the
\* value at the greatest of them
KeysUpTo == {k \in DOMAIN fn.entry.version_config : k <= fn.game_version}
ValueAtGreatestKey ==
    fn.entry.version_config[CHOOSE k \in KeysUpTo : \A o \in KeysUpTo : o <= k]
PinAsked == fn.op = "mod_entry" /\ fn.pin_called

\* C19 as stated: pinned_version_for returns the value at the greatest key <= v;
\* no pin when there is no such key or when that value is exactly "0.0.0"; any
\* value that is not exactly "0.0.0" is returned as stored.
C19_PinExactSentinel ==
    PinAsked =>
        fn.pin = IF KeysUpTo = {} \/ ValueAtGreatestKey = Sentinel
                 THEN NoPin ELSE SomePin(ValueAtGreatestKey)

\* C19 amended: as above, but the value counts as the sentinel when it is "0.0.0"
\* once leading and trailing whitespace is removed; any other value is returned
\* as stored (untrimmed), and a sentinel at the greatest key never falls back to
\* a smaller key.
C19_PinTrimmedSentinel ==
    PinAsked =>
        fn.pin = IF KeysUpTo = {} \/ Trim(ValueAtGreatestKey) = Sentinel
                 THEN NoPin ELSE SomePin(ValueAtGreatestKey)

\* C19 witness: the greatest key holds " 0.0.0\n" and a smaller key holds a pin;
\* the result is no pin
C19_Witness ==
    /\ PinAsked /\ fn.pin = NoPin /\ fn.game_version = 3
    /\ DOMAIN fn.entry.version_config = PinKeys
    /\ fn.entry.version_config[3] = <<" ">> \o Sentinel \o <<"\n">>
    /\ fn.entry.version_config[1] = <<"1", ".", "0", ".", "1">>

(* ------------------------ overall_from_step, called -------------------- *)

\* Arguments: step (u32) below, inside and above 1..steps_total; steps_total >= 1;
\* step_progress (finite f64) below 0, inside [0, 1] and above 1
StepInputs == {0, 1, 2, 3, 5, 6}
StepTotals == {1, 2, 5}
ProgressInputs == {Rat(0 - 1, 2), Zero, Rat(1, 4), Rat(1, 2), One, Rat(3, 2)}
Hundred == Rat(100, 1)

InitProgress ==
    /\ platform = "unix"
    /\ fs = Fs(FALSE, NoVersions, NoShared, NoState)
    /\ pc = "idle" /\ loc = NoLoc /\ events = <<>> /\ calls = <<>> /\ runs = 0
    /\ pre = fs
    /\ \E s \in StepInputs, t \in StepTotals, p \in ProgressInputs, q \in ProgressInputs :
          fn = [op |-> "overall_from_step", step |-> s, steps_total |-> t,
                sp1 |-> p, sp2 |-> q, called |-> FALSE, out1 |-> Zero, out2 |-> Zero]

\* overall_from_step(step, sp, steps_total) for the two step_progress values
OverallCall ==
    /\ fn.op = "overall_from_step" /\ ~fn.called
    /\ fn' = [fn EXCEPT !.called = TRUE,
                        !.out1 = overall_from_step(fn.step, fn.sp1, fn.steps_total),
                        !.out2 = overall_from_step(fn.step, fn.sp2, fn.steps_total)]
    /\ UNCHANGED <<platform, fs, pc, loc, events, calls, runs, pre>>

NextProgress == OverallCall

SpecProgress == InitProgress /\ [][NextProgress]_vars

\* C20: for steps_total T >= 1, overall_from_step(step, sp, T) is
\* ((clamp(step,1,T) - 1) + clamp(sp,0,1)) / T * 100; it does not decrease when sp
\* grows (same step), it is 0 at (1, 0, T) and 100 at (T, 1, T), and it always
\* lies in [0, 100].
C20_OverallFromStep ==
    fn.op = "overall_from_step" /\ fn.called =>
        LET T == fn.steps_total
            s == IF fn.step < 1 THEN 1 ELSE IF fn.step > T THEN T ELSE fn.step
            c == IF fn.sp1.n < 0 THEN Zero ELSE IF fn.sp1.n > fn.sp1.d THEN One ELSE fn.sp1
        IN  /\ fn.out1.n * (c.d * T) = ((s - 1) * c.d + c.n) * 100 * fn.out1.d
            /\ RatLeq(fn.sp1, fn.sp2) => RatLeq(fn.out1, fn.out2)
            /\ fn.step = 1 /\ fn.sp1 = Zero => fn.out1 = Zero
            /\ fn.step = T /\ fn.sp1 = One => fn.out1 = Hundred
            /\ RatLeq(Zero, fn.out1) /\ RatLeq(fn.out1, Hundred)

\* C20 witness: a step above steps_total with step_progress above 1 gives 100, and
\* a smaller step_progress gave less
C20_Witness ==
    /\ fn.op = "overall_from_step" /\ fn.called
    /\ fn.step > fn.steps_total /\ RatLt(One, fn.sp2) /\ fn.out2 = Hundred
    /\ RatLt(fn.sp1, fn.sp2) /\ RatLt(fn.out1, fn.out2)

(* ----------------------- the manifest fetch, once --------------------- *)

FetchCalls == Cardinality({i \in DOMAIN calls : calls[i] = "fetch_manifest"})
FetchFailed == loc.exit = "fetch_manifest"

\* C21: fetch_manifest sends exactly one GET per call and never a second one. A
\* transport failure, an error status and a body that does not parse each make
\* the call return an error after that one request, and the run that receives
\* it runs no further step: an install run only returns (its Error event
\* follows), with no record of a later step, no later call and the versions,
\* the shared directory and the manifest state untouched; a sync run has
\* returned with nothing emitted and nothing changed.
C21_FetchOnceNoRetry ==
    /\ loc.gets = FetchCalls
    /\ loc.http \in {"transport", "status", "parse"} <=> FetchFailed
    /\ FetchFailed =>
         /\ loc.gets = 1
         /\ loc.res = "err"
         /\ calls[Len(calls)] = "fetch_manifest"
         /\ fs.versions = pre.versions
         /\ fs.shared = pre.shared
         /\ fs.manifest_state = pre.manifest_state
         /\ loc.kind = "install" =>
              /\ pc \in {"i_return", "done"}
              /\ \A i \in DOMAIN events :
                     events[i].type = "progress" => events[i].step = 1
         /\ loc.kind = "sync" => pc = "done" /\ events = <<>> /\ fs = pre

\* C21 witness: an install run has returned, its Error event emitted, after a
\* manifest body that did not parse
C21_Witness ==
    /\ pc = "done" /\ FetchFailed /\ loc.http = "parse" /\ loc.kind = "install"
    /\ events[Len(events)].type = "error"

(* --------------- both pipelines, from two application data dirs ------- *)

\* The non-windows build on a fresh machine, and on a machine with two installs,
\* the later one linked, whose manifest state is on disk
InitBoth ==
    /\ platform = "unix"
    /\ fs \in {Fs(FALSE, NoVersions, NoShared, NoState),
               Fs(TRUE, [NoVersions EXCEPT ![VersionDirName(1)] = LegacyInstall,
                                           ![VersionDirName(2)] = LinkedInstall(platform)],
                  SomeShared, [exists |-> TRUE, manifest_version |-> 1])}
    /\ pc = "idle"
    /\ loc = NoLoc
    /\ events = <<>>
    /\ calls = <<>>
    /\ runs = 0
    /\ pre = fs
    /\ fn = NoFn

SpecBoth == InitBoth /\ [][Next]_vars

(* ------------------ normalize_aliases, applied twice ------------------ *)

InitAlias ==
    /\ platform = "unix"
    /\ fs = Fs(FALSE, NoVersions, NoShared, NoState)
    /\ pc = "idle" /\ loc = NoLoc /\ events = <<>> /\ calls = <<>> /\ runs = 0
    /\ pre = fs
    /\ \E mods \in ModLists :
         fn = [op |-> "normalize_aliases", before |-> mods, mods |-> mods, n |-> 0,
               changed1 |-> FALSE, once |-> <<>>, changed2 |-> FALSE]

\* normalize_aliases(&mut cfg) on a fresh configuration
NormalizeFirst ==
    /\ fn.op = "normalize_aliases" /\ fn.n = 0
    /\ LET r == normalize_aliases(fn.mods)
       IN  fn' = [fn EXCEPT !.mods = r.mods, !.n = 1, !.changed1 = r.changed,
                            !.once = r.mods]
    /\ UNCHANGED <<platform, fs, pc, loc, events, calls, runs, pre>>

\* normalize_aliases(&mut cfg) on the configuration the first call left
NormalizeAgain ==
    /\ fn.op = "normalize_aliases" /\ fn.n = 1
    /\ LET r == normalize_aliases(fn.mods)
       IN  fn' = [fn EXCEPT !.mods = r.mods, !.n = 2, !.changed2 = r.changed]
    /\ UNCHANGED <<platform, fs, pc, loc, events, calls, runs, pre>>

NextAlias == NormalizeFirst \/ NormalizeAgain
SpecAlias == InitAlias /\ [][NextAlias]_vars

\* An entry some rename rule applies to
MatchesRenameRule(m) == m.dev = "Hardy" /\ m.name = "LCMaxSoundFix"

\* C22: normalize_aliases is idempotent and touches nothing but renamed
\* identifiers. One application keeps the list's length and order, leaves every
\* entry that matches no rename rule as it was, changes at most dev and name of
\* an entry that matches one, and reports a change exactly when the list
\* differs; a second application leaves the list as the first one left it and
\* reports no change.
C22_NormalizeIdempotent ==
    /\ fn.n >= 1 =>
         /\ Len(fn.once) = Len(fn.before)
         /\ \A i \in DOMAIN fn.before :
              /\ fn.once[i].enabled = fn.before[i].enabled
              /\ ~MatchesRenameRule(fn.before[i]) => fn.once[i] = fn.before[i]
              /\ ~MatchesRenameRule(fn.once[i])
         /\ fn.changed1 <=> fn.once # fn.before
    /\ fn.n = 2 => fn.mods = fn.once /\ ~fn.changed2

\* C22 witness: a two-entry list with the misspelt name was normalized twice
C22_Witness ==
    /\ fn.n = 2 /\ fn.changed1 /\ Len(fn.before) = 2
    /\ \E i \in DOMAIN fn.before : MatchesRenameRule(fn.before[i])
    /\ \E i \in DOMAIN fn.before : fn.before[i].name = "LCMaxSoundsFix"

(* ------------- two add-only writers on the shared directory ----------- *)

Writers == {1, 2}
WriterContent(w) == IF w = 1 THEN "ONE" ELSE "TWO"
\* What a writer copies from: one file, a file in a subdirectory, both, or a
\* file with the subdirectory's name
RaceSources(w) ==
    {TreeOf(<<"a.cfg">> :> WriterContent(w)),
     TreeOf(<<"sub", "a.cfg">> :> WriterContent(w)),
     TreeOf(<<"a.cfg">> :> WriterContent(w) @@ <<"sub", "a.cfg">> :> WriterContent(w)),
     TreeOf(<<"sub">> :> WriterContent(w))}
Parent(p) == SubSeq(p, 1, Len(p) - 1)
NewWriter(src) == [src |-> src, todo |-> {p \in Paths : src[p] # Absent}, cwd |-> <<>>,
                   at |-> <<>>, status |-> "run", copied |-> {}]

InitRace ==
    /\ platform = "unix"
    /\ fs = Fs(FALSE, NoVersions, NoShared, NoState)
    /\ pc = "idle" /\ loc = NoLoc /\ events = <<>> /\ calls = <<>> /\ runs = 0
    /\ pre = fs
    /\ \E dst \in SharedTrees, s1 \in RaceSources(1), s2 \in RaceSources(2) :
         fn = [op |-> "race", shared0 |-> dst, shared |-> dst,
               w |-> [w \in Writers |-> NewWriter(IF w = 1 THEN s1 ELSE s2)]]

\* The entries of the directory a writer is in that it has not handled yet
Pending(w) == Children(fn.w[w].cwd) \cap fn.w[w].todo
Ready(w) == fn.op = "race" /\ fn.w[w].status = "run" /\ fn.w[w].at = <<>>

\* installer.rs:126-128 and 120: the entry is a directory; the recursive call
\* starts with create_dir_all(dst), which fails on a file of that name
WriterMkdir(w, e) ==
    /\ Ready(w) /\ e \in Pending(w) /\ fn.w[w].src[e] = Dir
    /\ IF fn.shared[e] \in {Absent, Dir}
       THEN fn' = [fn EXCEPT !.shared[e] = Dir, !.w[w].cwd = e, !.w[w].todo = @ \ {e}]
       ELSE fn' = [fn EXCEPT !.w[w].status = "err"]
    /\ UNCHANGED <<platform, fs, pc, loc, events, calls, runs, pre>>

\* Variant of the check that goes on to the copy whatever is at the destination
WriterCheckBlind(w, e) ==
    /\ Ready(w) /\ e \in Pending(w) /\ fn.w[w].src[e] \notin {Absent, Dir}
    /\ fn' = [fn EXCEPT !.w[w].at = e]
    /\ UNCHANGED <<platform, fs, pc, loc, events, calls, runs, pre>>

\* installer.rs:130-133: the entry is a file; to.exists() decides whether it is
\* skipped
WriterCheck(w, e) ==
    /\ Ready(w) /\ e \in Pending(w) /\ fn.w[w].src[e] \notin {Absent, Dir}
    /\ IF fn.shared[e] # Absent
       THEN fn' = [fn EXCEPT !.w[w].todo = @ \ {e}]
       ELSE fn' = [fn EXCEPT !.w[w].at = e]
    /\ UNCHANGED <<platform, fs, pc, loc, events, calls, runs, pre>>

\* installer.rs:134-137: create_dir_all(parent), then std::fs::copy(from, to),
\* which replaces a file that is there by now and fails on a directory
WriterCopy(w) ==
    /\ fn.op = "race" /\ fn.w[w].status = "run" /\ fn.w[w].at # <<>>
    /\ LET e == fn.w[w].at
       IN  IF fn.shared[e] = Dir
           THEN fn' = [fn EXCEPT !.w[w].status = "err", !.w[w].at = <<>>]
           ELSE fn' = [fn EXCEPT !.shared[e] = fn.w[w].src[e], !.w[w].at = <<>>,
                                 !.w[w].todo = @ \ {e}, !.w[w].copied = @ \cup {e}]
    /\ UNCHANGED <<platform, fs, pc, loc, events, calls, runs, pre>>

\* installer.rs:140: the loop is over; the call for this directory returns Ok
WriterReturn(w) ==
    /\ Ready(w) /\ Pending(w) = {}
    /\ IF fn.w[w].cwd = <<>>
       THEN fn' = [fn EXCEPT !.w[w].status = "ok"]
       ELSE fn' = [fn EXCEPT !.w[w].cwd = Parent(@)]
    /\ UNCHANGED <<platform, fs, pc, loc, events, calls, runs, pre>>

NextRace ==
    \E w \in Writers :
        \/ \E e \in Paths : WriterMkdir(w, e)
        \/ \E e \in Paths : WriterCheck(w, e)
        \/ WriterCopy(w)
        \/ WriterReturn(w)

SpecRace == InitRace /\ [][NextRace]_vars

WritersDone == fn.op = "race" /\ \A w \in Writers : fn.w[w].status # "run"

\* C23: two copy_dir_add_only calls run against the same destination, their
\* exists-checks and copies interleaved in any order. At every moment each file
\* that was in the destination before either started has its original content
\* (and each directory is still a directory); a path whose entry differs from
\* the start was absent at the start and holds what one of the writers has at
\* that path.
C23_RacingWritersKeepExisting ==
    fn.op = "race" =>
        \A p \in Paths :
            /\ fn.shared0[p] # Absent => fn.shared[p] = fn.shared0[p]
            /\ fn.shared[p] # fn.shared0[p] =>
                 /\ fn.shared0[p] = Absent
                 /\ \E w \in Writers : fn.shared[p] = fn.w[w].src[p]

\* C23 witness: both writers have returned; both copied the same path, which was
\* absent at the start, the second copy replacing the first; a file that was
\* there at the start, which a writer also had, is as it was
C23_Witness ==
    /\ WritersDone
    /\ \E p \in fn.w[1].copied \cap fn.w[2].copied : fn.shared0[p] = Absent
    /\ \E q \in Paths : /\ fn.shared0[q] = "OLD" /\ fn.w[1].src[q] = "ONE"
                        /\ fn.shared[q] = "OLD"

(* ------------------------- sync runs, repeated ------------------------ *)

\* Sync runs one after the other, with what the last comparing run came to
\* kept beside them
InitRetry ==
    /\ platform \in {"windows", "unix"}
    /\ fs \in InitFs(platform)
    /\ pc = "idle"
    /\ loc = NoLoc
    /\ events = <<>>
    /\ calls = <<>>
    /\ runs = 0
    /\ pre = fs
    /\ fn = [op |-> "sync_history", last |-> NoRun]

SpecRetry == InitRetry /\ [][NextSync]_vars

\* The run is in, or has been in, the block of the two steps
EnteredBlock ==
    /\ loc.kind = "sync"
    /\ \/ pc \in {"s_config", "s_junction", "s_extract", "s_mods", "s_return"}
       \/ pc = "done" /\ loc.exit \notin EarlyExits
\* The run has read the manifest state and compared the two versions
Compared == EnteredBlock \/ (SyncRunOver /\ loc.exit = "up_to_date")
Step1Failures == {"get_default_config", "write_config_zip", "ensure_config_junction",
                  "extract_config_zip"}
\* The last comparing run before this one ended in Error
LastFailed == fn.op = "sync_history" /\ fn.last.outcome \in {"failed", "unsaved"}
\* The run fetched the remote version the last comparing run had fetched
SameRemote == SyncFetched /\ loc.remote = fn.last.remote

\* A run after a failed one, with the same remote version, executes step 1 and,
\* when step 1 succeeds, step 2
RetryRunsBothSteps ==
    LastFailed /\ SameRemote /\ Compared =>
        /\ EnteredBlock
        /\ pc # "s_config" => "get_default_config" \in CallsMade
        /\ SyncRunOver /\ loc.exit \notin Step1Failures => "install_mods" \in CallsMade
\* A run after a finished (or no-op) one, with the same remote version, is a no-op
LaterRunIsNoOp ==
    /\ fn.op = "sync_history" /\ fn.last.outcome \in {"finished", "noop"}
    /\ SameRemote
    => /\ fs = pre
       /\ events = <<>>
       /\ calls = <<"fetch_manifest">>
       /\ pc \in {"s_gate", "done"}

StateChanges == fs'.manifest_state # fs.manifest_state
\* The step in which a sync run, both collaborators having returned Ok, writes
\* the state
SyncPersists ==
    /\ loc.kind = "sync" /\ pc = "s_mods" /\ pc' = "s_return" /\ loc'.res = "ok"
    /\ {"get_default_config", "extract_config_zip", "install_mods"} \subseteq CallsMade
    /\ fs'.manifest_state = [exists |-> TRUE, manifest_version |-> loc.remote]

StepsTotalOfRun == IF loc.kind = "install" THEN INSTALL_STEPS_TOTAL ELSE SYNC_STEPS_TOTAL
InRange(lo, r, hi) == RatLeq(lo, r) /\ RatLeq(r, hi)

\* C26: every progress record a run has emitted carries the run's steps_total (5
\* for an install run, 2 for a sync run), a step between 1 and steps_total, a
\* step_progress between 0 and 1 and an overall_percent between 0 and 100,
\* whatever the collaborators reported (a total of 0, done above total) and
\* whatever the loader response said about its size (nothing, 0, less than was
\* received).
C26_ProgressRecordsInRange ==
    \A i \in DOMAIN events :
        events[i].type = "progress" =>
            /\ events[i].steps_total = StepsTotalOfRun
            /\ events[i].step \in 1..events[i].steps_total
            /\ InRange(Zero, events[i].step_progress, One)
            /\ InRange(Zero, events[i].overall_percent, Hundred)

\* C26 witness: an install run received two bytes of a loader whose response
\* announced one, then a collaborator reported; the run has ended with records
\* of all five steps
C26_Witness ==
    /\ InstallRunOver /\ loc.res = "ok"
    /\ loc.total = [known |-> TRUE, len |-> 1] /\ loc.downloaded = 2
    /\ loc.cb = 1
    /\ \A k \in 1..INSTALL_STEPS_TOTAL :
           \E i \in DOMAIN events : events[i].type = "progress" /\ events[i].step = k

(* ----------------- runs whose collaborators report steadily ----------- *)

\* The most reports the collaborators of one run make
MaxReports == 2

\* A machine with one install and no manifest state; the last report of the
\* collaborator call in progress is kept beside the run
InitSteady ==
    /\ platform \in {"windows", "unix"}
    /\ fs = Fs(TRUE, [NoVersions EXCEPT ![VersionDirName(1)] = LegacyInstall], NoShared, NoState)
    /\ pc = "idle"
    /\ loc = NoLoc
    /\ events = <<>>
    /\ calls = <<>>
    /\ runs = 0
    /\ pre = fs
    /\ fn = [op |-> "reports", report |-> <<>>]

\* A report whose total is the one reported before in this call and whose done
\* count is not below the one reported before
Steady(r) ==
    IF fn.report = <<>> THEN TRUE
    ELSE r[2] = fn.report[2] /\ r[1] >= fn.report[1]

\* Both pipelines, their collaborators reporting non-decreasing done counts
\* against a fixed total, and no call failing but the manifest fetch and the
\* loader download (a failed run's records are the first records of a run that
\* goes on)
NextSteady ==
    \/ \E v \in GameVersions : StartInstall(v)
    \/ InstallDownloader("ok")
    \/ LoginCheck("ok")
    \/ \E resp \in Responses : InstallFetchManifest(resp)
    \/ PrepareGameDir("ok")
    \/ DownloadDepot("ok")
    \/ \E b \in Bodies : \E t \in Totals(b) : LoaderRequest("ok", b, t)
    \/ \E ok \in BOOLEAN, n \in 1..2 : LoaderChunk(ok, n)
    \/ LoaderCheck("ok")
    \/ \E r \in Reports :
          loc.cb < MaxReports /\ Steady(r) /\ LoaderExtractProgress(r[1], r[2])
    \/ \E c \in BOOLEAN : LoaderExtractDone("ok", c)
    \/ InstallConfig("none", Paths)
    \/ ModsBegin(TRUE)
    \/ \E r \in Reports : loc.cb < MaxReports /\ Steady(r) /\ ModsProgress(r[1], r[2])
    \/ ModsDone(TRUE)
    \/ InstallReturn
    \/ StartSync(TRUE)
    \/ \E resp \in Responses : SyncFetchManifest(resp)
    \/ SyncGate(TRUE)
    \/ SyncConfigDownload("ok")
    \/ SyncEnsureJunction("none", Paths)
    \/ \E r \in Reports :
          loc.cb < MaxReports /\ Steady(r) /\ SyncExtractProgress(r[1], r[2])
    \/ SyncExtractDone("ok")
    \/ \E r \in Reports : loc.cb < MaxReports /\ Steady(r) /\ SyncModsProgress(r[1], r[2])
    \/ SyncModsDone("ok")
    \/ SyncReturn

SpecSteady == InitSteady /\ [][NextSteady]_vars

Half == Rat(1, 2)
\* The records a step appends to the events
Emitted == {i \in DOMAIN events' : i > Len(events)}

\* C27: when the collaborators report non-decreasing done counts against a fixed
\* total, the overall_percent of a run's progress records never decreases in
\* emission order; and in step 3 of an install run every record the download
\* loop emits has step_progress at most 0.5 and every record the extraction
\* callback emits has step_progress at least 0.5.
C27_ProgressNeverGoesBack ==
    /\ [](\A i \in DOMAIN events : \A j \in DOMAIN events :
              (i < j /\ events[i].type = "progress" /\ events[j].type = "progress")
                  => RatLeq(events[i].overall_percent, events[j].overall_percent))
    /\ [][pc = "i_stream" /\ loc.kind = "install" =>
              \A i \in Emitted : events'[i].type = "progress" =>
                  events'[i].step = 3 /\ RatLeq(events'[i].step_progress, Half)]_vars
    /\ [][pc = "i_extract" /\ pc' = "i_extract" =>
              \A i \in Emitted :
                  events'[i].step = 3 /\ RatLeq(Half, events'[i].step_progress)]_vars

\* C27 witness: an install run has ended with Finished; its download reached the
\* announced size and its extraction reported twice, part-way and complete
C27_Witness ==
    /\ InstallRunOver /\ loc.res = "ok" /\ loc.cb = 2
    /\ \E i \in DOMAIN events :
           /\ i + 3 \in DOMAIN events
           /\ events[i].step = 3 /\ events[i].step_progress = Half
           /\ events[i + 1].step = 3 /\ events[i + 1].step_progress = Rat(3, 4)
           /\ events[i + 2].step = 3 /\ events[i + 2].step_progress = One
           /\ events[i + 3].step = 3

(* ---------------------- the scan of the versions root ----------------- *)

\* The names an entry of the scanned root can have: the names of above, and
\* names with no number, no prefix, a sign, and a number above u32::MAX
ScanNames ==
    Names \cup {<<"v">>, <<"2">>, <<"v", "+", "2">>,
                <<"v", "4", "2", "9", "4", "9", "6", "7", "2", "9", "6">>}
\* Versions roots holding any mix of files and directories under these names
ScanWorlds ==
    {Fs(FALSE, [n \in ScanNames |-> NoEntry], NoShared, NoState)}
    \cup {Fs(TRUE, v, NoShared, NoState) :
            v \in [ScanNames -> {NoEntry, FileEntry, EmptyDir}]}

InitScan ==
    /\ platform = "unix"
    /\ fs \in ScanWorlds
    /\ pc = "idle"
    /\ loc = NoLoc
    /\ events = <<>>
    /\ calls = <<>>
    /\ runs = 0
    /\ pre = fs
    /\ fn = NoFn

\* The first step of a sync run, which scans the root and fixes the version and
\* the game root the run works on
NextScan == \E ok \in BOOLEAN : StartSync(ok)
SpecScan == InitScan /\ [][NextScan]_vars

\* The names of the form v<N>, N an unsigned number as u32's parser reads it (an
\* optional '+', decimal digits, at most u32::MAX), with the number each stands for
VersionNumber ==
    <<"v", "1">> :> 1 @@ <<"v", "2">> :> 2 @@ <<"v", "0", "3">> :> 3 @@ <<"v", "+", "2">> :> 2
\* The directories of the root, as the run found it, that have such a name
MatchingDirs == {n \in DOMAIN VersionNumber : pre.root /\ pre.versions[n].kind = "dir"}
Scanned == loc.kind = "sync" /\ loc.exit # "app_data_dir"

\* C28: the scan returns none exactly when the root holds no directory named
\* v<N> (the root being absent included); otherwise it returns a directory of
\* that form with the greatest number, with that number as the version, files
\* and directories of other names playing no part; and the sync run takes this
\* version and this directory as the ones it works on.
C28_ScanPicksGreatestVersionDir ==
    Scanned =>
        /\ loc.exit = "no_installed_version" <=> MatchingDirs = {}
        /\ MatchingDirs = {} => pc = "done" /\ loc.res = "ok"
        /\ MatchingDirs # {} =>
             /\ pc = "s_fetch"
             /\ loc.name \in MatchingDirs
             /\ loc.version = VersionNumber[loc.name]
             /\ \A n \in MatchingDirs : VersionNumber[n] <= loc.version

\* C28 witness: v03 was picked in a root where v2 is a directory, v1 is a file
\* and directories named 2, v, vx and v4294967296 sit beside them
C28_Witness ==
    /\ Scanned /\ loc.name = <<"v", "0", "3">> /\ loc.version = 3
    /\ pre.versions[VersionDirName(2)].kind = "dir"
    /\ pre.versions[VersionDirName(1)].kind = "file"
    /\ \A n \in ScanNames \ DOMAIN VersionNumber : pre.versions[n].kind = "dir"

(* ---------------------- no configuration file is lost ----------------- *)

\* C29: ensure_config_junction loses no configuration file. For every file a
\* genuine config directory held before the call, after the call has returned
\* (Ok or Err) a file exists at the same relative path in the shared directory
\* or is still at the config path; also when the copy stopped part-way and when
\* the shared directory holds a file where the original had a directory or a
\* directory where the original had a file.
C29_NoConfigFileLost ==
    FirstCallDone /\ ConfigBefore.kind = "dir" =>
        \A p \in Paths :
            ConfigBefore.files[p] \in Contents =>
                \/ fn.mid.shared.files[p] \in Contents
                \/ ConfigAfterFirst.kind = "dir" /\ ConfigAfterFirst.files[p] \in Contents

====
